---- MODULE Spec2Model ----
(***************************************************************************)
(* A model of the CDC WONDER client: the request compiler                  *)
(* (CDCWonderClient.build_query_xml and the template patches of app.py,    *)
(* run_by_age.py and query_from_xml_file), and the response decoder        *)
(* (CDCWonderClient._parse_response), the job threads of app.py            *)
(* (execute_query, execute_batch_queries, execute_age_queries) with the    *)
(* job records a poller reads, and the script run_by_age.py.               *)
(*                                                                         *)
(* An XML <parameter> element is a record [name, values]: the texts of its *)
(* <name> children and of its <value> children, in document order.         *)
(* Element.find("name") is the first of them, or nothing when there is     *)
(* none.  Python's None is the string None.                                *)
(***************************************************************************)
EXTENDS Integers, Sequences, FiniteSets, TLC

VARIABLES pc, query, xml_request, template, patch, response, result,
          jobs, threads, disk, script

vars ==
  <<pc, query, xml_request, template, patch, response, result, jobs, threads, disk, script>>

None == "None"

\* Python truthiness of an optional string: None and "" are false.
Truthy(s) == s # None /\ s # ""

Param(n, v) == [name |-> <<n>>, values |-> <<v>>]

(***************************************************************************)
(* The Dimension Catalog: class constants of CDCWonderClient.              *)
(***************************************************************************)
database == "D176"

GROUP_BY_FIELDS ==
  [age |-> "D176.V5", age_single_year |-> "D176.V51", age_infant |-> "D176.V52",
   gender |-> "D176.V7", race |-> "D176.V42", ethnicity |-> "D176.V43",
   year |-> "D176.V100-level1", month |-> "D176.V100-level2", week |-> "D176.V1",
   weekday |-> "D176.V4", state |-> "D176.V9", region |-> "D176.V10",
   ucd |-> "D176.V2", ucd_chapter |-> "D176.V25", mcd |-> "D176.V13",
   autopsy |-> "D176.V20", place_of_death |-> "D176.V21"]

CAUSES_OF_DEATH ==
  [all |-> "*All*", covid19 |-> "U07.1", heart_disease |-> "I00-I09,I11,I13,I20-I51",
   cancer |-> "C00-C97", accidents |-> "V01-X59,Y85-Y86", stroke |-> "I60-I69",
   alzheimers |-> "G30", diabetes |-> "E10-E14", influenza_pneumonia |-> "J09-J18",
   kidney_disease |-> "N00-N07,N17-N19,N25-N27", suicide |-> "X60-X84,Y87.0",
   drug_overdose |-> "X40-X44,X60-X64,X85,Y10-Y14"]

\* dict.get(key, default)
DictGet(d, k, default) == IF k \in DOMAIN d THEN d[k] ELSE default

(***************************************************************************)
(* The default parameter tables, as ordered lists of <<name, value>>.      *)
(***************************************************************************)
BaseParameters ==
  <<
    <<"accept_datause_restrictions", "true">>, <<"dataset_code", database>>,
    <<"stage", "request">>, <<"action-Send", "Send">>, <<"O_precision", "1">>,
    <<"O_timeout", "600">>, <<"O_show_totals", "true">>, <<"O_show_zeros", "true">>,
    <<"O_show_suppressed", "true">>, <<"O_rate_per", "100000">>, <<"O_javascript", "on">>,
    <<"O_dates", "MMWR">>, <<"M_1", "D176.M1">>, <<"M_2", "D176.M2">>,
    <<"M_3", "D176.M3">>, <<"O_aar", "aar_none">>, <<"O_aar_pop", "0000">>,
    <<"O_age", "D176.V5">>, <<"O_location", "D176.V9">>,
    <<"O_death_location", "D176.V79">>, <<"O_death_urban", "D176.V89">>,
    <<"O_urban", "D176.V19">>, <<"O_race", "D176.V42">>, <<"O_ucd", "D176.V2">>,
    <<"O_mcd", "D176.V15">>, <<"O_V1_fmode", "freg">>, <<"O_V2_fmode", "freg">>,
    <<"O_V9_fmode", "freg">>, <<"O_V10_fmode", "freg">>, <<"O_V13_fmode", "fadv">>,
    <<"O_V15_fmode", "fadv">>, <<"O_V16_fmode", "fadv">>, <<"O_V25_fmode", "freg">>,
    <<"O_V26_fmode", "fadv">>, <<"O_V27_fmode", "freg">>, <<"O_V77_fmode", "freg">>,
    <<"O_V79_fmode", "freg">>, <<"O_V80_fmode", "freg">>, <<"O_V100_fmode", "freg">>
  >>

DefaultFilters ==
  <<
    <<"V_D176.V5", "*All*">>, <<"V_D176.V7", "*All*">>, <<"V_D176.V42", "*All*">>,
    <<"V_D176.V43", "*All*">>, <<"V_D176.V44", "*All*">>, <<"V_D176.V11", "*All*">>,
    <<"V_D176.V12", "*All*">>, <<"V_D176.V17", "*All*">>, <<"V_D176.V19", "*All*">>,
    <<"V_D176.V20", "*All*">>, <<"V_D176.V21", "*All*">>, <<"V_D176.V22", "*All*">>,
    <<"V_D176.V23", "*All*">>, <<"V_D176.V4", "*All*">>, <<"V_D176.V51", "*All*">>,
    <<"V_D176.V52", "*All*">>, <<"V_D176.V6", "00">>, <<"V_D176.V81", "*All*">>,
    <<"V_D176.V89", "*All*">>, <<"V_D176.V1", "">>, <<"V_D176.V2", "">>,
    <<"V_D176.V9", "">>, <<"V_D176.V10", "">>, <<"V_D176.V13", "">>,
    <<"V_D176.V13_AND", "">>, <<"V_D176.V15", "">>, <<"V_D176.V15_AND", "">>,
    <<"V_D176.V16", "">>, <<"V_D176.V16_AND", "">>, <<"V_D176.V25", "">>,
    <<"V_D176.V26", "">>, <<"V_D176.V26_AND", "">>, <<"V_D176.V27", "">>,
    <<"V_D176.V77", "">>, <<"V_D176.V79", "">>, <<"V_D176.V80", "">>,
    <<"V_D176.V100", "">>
  >>

FinderParameters ==
  <<
    <<"finder-stage-D176.V1", "codeset">>, <<"finder-stage-D176.V2", "codeset">>,
    <<"finder-stage-D176.V9", "codeset">>, <<"finder-stage-D176.V10", "codeset">>,
    <<"finder-stage-D176.V13", "codeset">>, <<"finder-stage-D176.V15", "">>,
    <<"finder-stage-D176.V16", "">>, <<"finder-stage-D176.V25", "codeset">>,
    <<"finder-stage-D176.V26", "codeset">>, <<"finder-stage-D176.V27", "codeset">>,
    <<"finder-stage-D176.V77", "codeset">>, <<"finder-stage-D176.V79", "codeset">>,
    <<"finder-stage-D176.V80", "codeset">>, <<"finder-stage-D176.V100", "codeset">>
  >>

DefaultFParameters ==
  <<
    <<"F_D176.V1", "*All*">>, <<"F_D176.V2", "*All*">>, <<"F_D176.V9", "*All*">>,
    <<"F_D176.V10", "*All*">>, <<"F_D176.V13", "*All*">>, <<"F_D176.V25", "*All*">>,
    <<"F_D176.V26", "*All*">>, <<"F_D176.V27", "*All*">>, <<"F_D176.V77", "*All*">>,
    <<"F_D176.V79", "*All*">>, <<"F_D176.V80", "*All*">>
  >>

\* An insertion-ordered dict as a list of <<key, value>>: d[k] = v overwrites in
\* place when k is a key and appends otherwise.
KeyIndex(d, k) ==
  LET at == {i \in 1..Len(d) : d[i][1] = k} IN
  IF at = {} THEN 0 ELSE CHOOSE i \in at : \A j \in at : i <= j

DictSet(d, k, v) ==
  IF KeyIndex(d, k) = 0 THEN Append(d, <<k, v>>)
  ELSE [d EXCEPT ![KeyIndex(d, k)] = <<k, v>>]

\* d.update(items), items being a dict literal (its keys distinct): the keys d
\* already has are overwritten in place, the others are appended in items' order.
DictUpdate(d, items) ==
  [i \in 1..Len(d) |->
     IF KeyIndex(items, d[i][1]) = 0 THEN d[i]
     ELSE <<d[i][1], items[KeyIndex(items, d[i][1])][2]>>]
  \o SelectSeq(items, LAMBDA e : KeyIndex(d, e[1]) = 0)

(***************************************************************************)
(* CDCWonderClient.build_query_xml: from-scratch compilation.              *)
(***************************************************************************)
Digits == <<"0", "1", "2", "3", "4", "5", "6", "7", "8", "9">>

\* str(n) of a natural number: its decimal digits.
RECURSIVE Str(_)
Str(n) == IF n < 10 THEN Digits[n + 1] ELSE Str(n \div 10) \o Digits[(n % 10) + 1]

\* The protocol's grouping slots B_1..B_5: range(1, 6).
NumSlots == 5

SlotName(i) == "B_" \o Str(i)

NoneSentinel == "*None*"

\* group_by = group_by or ["year"]
EffectiveGroupBy(group_by) == IF group_by = <<>> THEN <<"year">> ELSE group_by

\* years = years or [2024, 2025]
EffectiveYears(years) == IF years = <<>> THEN <<2024, 2025>> ELSE years

\* A slot filled only below the last entry.
GroupSlotValue_OffByOne(group_by, i) ==
  IF i < Len(group_by)
  THEN DictGet(GROUP_BY_FIELDS, group_by[i], group_by[i])
  ELSE NoneSentinel

\* The value written into slot B_i for the (effective) group_by list.
GroupSlotValue(group_by, i) ==
  IF i <= Len(group_by)
  THEN DictGet(GROUP_BY_FIELDS, group_by[i], group_by[i])
  ELSE NoneSentinel

RECURSIVE SetGroupSlots(_, _, _)
SetGroupSlots(params, group_by, i) ==
  IF i > NumSlots THEN params
  ELSE SetGroupSlots(DictSet(params, SlotName(i), GroupSlotValue(group_by, i)),
                     group_by, i + 1)

\* params = {} followed by the four update() calls.
DefaultParams ==
  DictUpdate(DictUpdate(DictUpdate(DictUpdate(<<>>, BaseParameters), DefaultFilters),
                        FinderParameters), DefaultFParameters)

\* One <parameter> per dict entry, F_D176.V100 skipped.
ParamElements(params) ==
  LET kept == SelectSeq(params, LAMBDA e : e[1] # "F_D176.V100") IN
  [i \in 1..Len(kept) |-> Param(kept[i][1], kept[i][2])]

\* The year filter: one <parameter> with one <value> per year, str(y).
YearParam(years) ==
  [name |-> <<"F_D176.V100">>, values |-> [i \in 1..Len(years) |-> Str(years[i])]]

\* Index of the first <parameter> whose <name> has the text n; 0 when there is none.
HasName(p, n) == p.name # <<>> /\ p.name[1] = n

FirstNamed(root, n) ==
  LET at == {i \in 1..Len(root) : HasName(root[i], n)} IN
  IF at = {} THEN 0 ELSE CHOOSE i \in at : \A j \in at : i <= j

\* "for elem in findall(parameter): if name matches: set value.text if the element
\* has a <value>; break": the first parameter of that name gets its first value
\* text replaced; a parameter without <value>, or no such parameter, changes nothing.
SetFirstNamed(root, n, text) ==
  LET i == FirstNamed(root, n) IN
  IF i = 0 THEN root
  ELSE IF root[i].values = <<>> THEN root
  ELSE [root EXCEPT ![i].values[1] = text]

\* str.upper() on the gender strings the model passes.
Upper == [M |-> "M", F |-> "F", m |-> "M", f |-> "F", male |-> "MALE", female |-> "FEMALE"]

gender_map == [M |-> "M", F |-> "F", male |-> "M", female |-> "F"]

GenderCode(gender) == DictGet(gender_map, Upper[gender], gender)

\* An unknown cause silently replaced by the all-causes code.
CauseCode_Substitute(cause) == DictGet(CAUSES_OF_DEATH, cause, "*All*")

CauseCode(cause) == DictGet(CAUSES_OF_DEATH, cause, cause)

\* value_elem.text = age_groups[0] on both branches of the length test.
AgeValue(age_groups) == age_groups[1]

CauseOverlay(root, q) ==
  IF Truthy(q.cause_of_death)
  THEN SetFirstNamed(root, "F_D176.V2", CauseCode(q.cause_of_death)) ELSE root

GenderOverlay(root, q) ==
  IF Truthy(q.gender) THEN SetFirstNamed(root, "V_D176.V7", GenderCode(q.gender)) ELSE root

AgeOverlay(root, q) ==
  IF q.age_groups # <<>> THEN SetFirstNamed(root, "V_D176.V5", AgeValue(q.age_groups))
  ELSE root

\* The tree before the filter overlays: the dict entries, then the year filter.
BaseTree(q) ==
  Append(ParamElements(SetGroupSlots(DefaultParams, EffectiveGroupBy(q.group_by), 1)),
         YearParam(EffectiveYears(q.years)))

\* The whole of build_query_xml; q.race is accepted and never read.
BuildQueryXml(q) == AgeOverlay(GenderOverlay(CauseOverlay(BaseTree(q), q), q), q)

(***************************************************************************)
(* Query specifications the model compiles.                                *)
(***************************************************************************)
MaxGroupBy == 5

GroupByNames == {"year", "age", "zip"}

RECURSIVE SeqsUpTo(_, _)
SeqsUpTo(S, n) ==
  IF n = 0 THEN {<<>>}
  ELSE LET shorter == SeqsUpTo(S, n - 1) IN
       shorter \cup {Append(s, x) : s \in {t \in shorter : Len(t) = n - 1}, x \in S}

\* The call sites of app.py and cli.py pass years, group_by and cause_of_death only.
QuerySpecs ==
  [group_by : SeqsUpTo(GroupByNames, MaxGroupBy),
   years : {<<>>, <<2023, 2024>>},
   cause_of_death : {None, "", "covid19", "U07.1", "plague"},
   gender : {None},
   age_groups : {<<>>},
   race : {<<>>}]

\* Every filter argument of build_query_xml, over the presets' grouping lists.
FilterSpecs ==
  [group_by : {<<>>, <<"year">>, <<"age", "year">>},
   years : {<<>>, <<2023, 2024>>},
   cause_of_death : {None, "", "covid19", "U07.1", "plague"},
   gender : {None, "M", "f", "male"},
   age_groups : {<<>>, <<"1">>, <<"1-4", "25-34">>},
   race : {<<>>, <<"2106-3">>}]

NoQuery == [group_by |-> <<>>, years |-> <<>>, cause_of_death |-> None, gender |-> None,
            age_groups |-> <<>>, race |-> <<>>]

NoDoc == [kind |-> "none"]

\* The web application's job ids (uuid prefixes), and its state before any job
\* is submitted: jobs = {}, no worker thread, nothing written to disk.
JobIds == {"j1", "j2"}

\* A job id that is not in the job table, and one no thread runs for.
NoJob == [status |-> "absent"]

NoThread == [kind |-> "none", pc |-> "none"]

\* run_by_age.py is not running.
NoScript == [pc |-> "none"]

NoJobs ==
  /\ jobs = [j \in JobIds |-> NoJob]
  /\ threads = [j \in JobIds |-> NoThread]
  /\ disk = <<>>
  /\ script = NoScript

Idle ==
  /\ NoJobs
  /\ xml_request = <<>>
  /\ template = <<>>
  /\ patch = None
  /\ response = NoDoc
  /\ result = None

InitCompile == pc = "start" /\ query \in QuerySpecs /\ Idle

InitFilters == pc = "start" /\ query \in FilterSpecs /\ Idle

\* client.build_query_xml(**query): no statement of it raises.
Build ==
  /\ pc = "start"
  /\ xml_request' = BuildQueryXml(query)
  /\ pc' = "built"
  /\ UNCHANGED <<query, template, patch, response, result, jobs, threads, disk, script>>

NextCompile == Build

SpecCompile == InitCompile /\ [][NextCompile]_vars

SpecFilters == InitFilters /\ [][NextCompile]_vars

(***************************************************************************)
(* Reading a compiled parameter list.                                      *)
(***************************************************************************)
NamedAt(root, n) == {i \in 1..Len(root) : HasName(root[i], n)}

\* The <value> texts of the only parameter named n.
ValuesOf(root, n) == root[CHOOSE i \in NamedAt(root, n) : TRUE].values

DefinedOnce(root, n) == Cardinality(NamedAt(root, n)) = 1

HoldsOnly(root, n, text) == DefinedOnce(root, n) /\ ValuesOf(root, n) = <<text>>

CatalogNames == {"age", "age_single_year", "age_infant", "gender", "race", "ethnicity",
                 "year", "month", "week", "weekday", "state", "region", "ucd",
                 "ucd_chapter", "mcd", "autopsy", "place_of_death"}

CauseNames == {"all", "covid19", "heart_disease", "cancer", "accidents", "stroke",
               "alzheimers", "diabetes", "influenza_pneumonia", "kidney_disease",
               "suicide", "drug_overdose"}

\* The codes the catalog knows: what a raw protocol code looks like.
RawCodes == {GROUP_BY_FIELDS[n] : n \in CatalogNames} \cup {CAUSES_OF_DEATH[n] : n \in CauseNames}

(***************************************************************************)
(* C1. For every query with at most 5 group_by entries, the compiled list  *)
(* defines each of B_1..B_5 exactly once, B_i holding the code of the i-th *)
(* entry and every slot past the list holding "*None*".                    *)
(***************************************************************************)
C1_SlotOf(group_by, i) ==
  IF i > Len(group_by) THEN "*None*"
  ELSE IF group_by[i] \in CatalogNames THEN GROUP_BY_FIELDS[group_by[i]]
  ELSE group_by[i]

\* C1 as stated: the slots follow the group_by list as given, so an empty list
\* leaves all five slots "*None*".
C1_AsStated ==
  (pc = "built" /\ Len(query.group_by) <= 5) =>
     \A i \in 1..5 : HoldsOnly(xml_request, SlotName(i), C1_SlotOf(query.group_by, i))

\* C1 amended: an empty (or absent) group_by is compiled as the list ["year"].
C1_GroupSlots ==
  (pc = "built" /\ Len(query.group_by) <= 5) =>
     LET g == IF query.group_by = <<>> THEN <<"year">> ELSE query.group_by IN
     \A i \in 1..5 : HoldsOnly(xml_request, SlotName(i), C1_SlotOf(g, i))

C1_Witness ==
  /\ pc = "built"
  /\ query.group_by = <<"age", "year">>
  /\ ValuesOf(xml_request, "B_1") = <<"D176.V5">>
  /\ ValuesOf(xml_request, "B_2") = <<"D176.V100-level1">>
  /\ ValuesOf(xml_request, "B_5") = <<"*None*">>

(***************************************************************************)
(* C2. The cause, gender and age overlays write the catalog-resolved value *)
(* into F_D176.V2, V_D176.V7 and V_D176.V5 when the query supplies one,    *)
(* leave "*All*" there when it supplies none, and change no other          *)
(* parameter.                                                              *)
(***************************************************************************)
C2_Overlaid == {"F_D176.V2", "V_D176.V7", "V_D176.V5"}

C2_FilterOverlays ==
  pc = "built" =>
    /\ HoldsOnly(xml_request, "F_D176.V2",
                 IF ~Truthy(query.cause_of_death) THEN "*All*"
                 ELSE IF query.cause_of_death \in CauseNames
                      THEN CAUSES_OF_DEATH[query.cause_of_death]
                      ELSE query.cause_of_death)
    /\ DefinedOnce(xml_request, "V_D176.V7")
    /\ ~Truthy(query.gender) => ValuesOf(xml_request, "V_D176.V7") = <<"*All*">>
    /\ (Truthy(query.gender) /\ query.gender \in DOMAIN gender_map) =>
          ValuesOf(xml_request, "V_D176.V7") = <<gender_map[query.gender]>>
    /\ (Truthy(query.gender) /\ query.gender \notin DOMAIN gender_map) =>
          ValuesOf(xml_request, "V_D176.V7") # <<"*All*">>
    /\ DefinedOnce(xml_request, "V_D176.V5")
    /\ query.age_groups = <<>> => ValuesOf(xml_request, "V_D176.V5") = <<"*All*">>
    /\ query.age_groups # <<>> =>
          ValuesOf(xml_request, "V_D176.V5")[1] \in {query.age_groups[i] : i \in 1..Len(query.age_groups)}
    /\ Len(xml_request) = Len(BaseTree(query))
    /\ \A i \in 1..Len(xml_request) :
         (\A n \in C2_Overlaid : ~HasName(xml_request[i], n)) =>
            xml_request[i] = BaseTree(query)[i]

(***************************************************************************)
(* C3. When the query supplies race codes, V_D176.V42 carries them instead *)
(* of its default "*All*".                                                 *)
(***************************************************************************)
C3_RaceWritten ==
  (pc = "built" /\ query.race # <<>>) =>
     /\ DefinedOnce(xml_request, "V_D176.V42")
     /\ ValuesOf(xml_request, "V_D176.V42") = query.race

(***************************************************************************)
(* C4. A group_by or cause_of_death name that is neither a catalog key nor *)
(* a raw protocol code makes compilation fail with a build error and       *)
(* produce no request; it is never passed through into the parameters.     *)
(***************************************************************************)
C4_Unrecognized(q) ==
  \/ \E i \in 1..Len(q.group_by) :
        i <= NumSlots /\ q.group_by[i] \notin CatalogNames \cup RawCodes
  \/ Truthy(q.cause_of_death) /\ q.cause_of_death \notin CauseNames \cup RawCodes

\* C4 as stated.
C4_AsStated ==
  (pc # "start" /\ C4_Unrecognized(query)) => (pc = "build_error" /\ xml_request = <<>>)

\* C4 amended: compilation never fails on a name; a group_by or cause_of_death
\* name that is no catalog key is written unchanged, as a raw code, into its
\* parameter (group_by entries past the fifth are dropped).
C4_PassThrough ==
  pc # "start" =>
       /\ pc = "built"
       /\ \A i \in 1..Len(query.group_by) :
            (i <= 5 /\ query.group_by[i] \notin CatalogNames) =>
               HoldsOnly(xml_request, SlotName(i), query.group_by[i])
       /\ (Truthy(query.cause_of_death) /\ query.cause_of_death \notin CauseNames) =>
            HoldsOnly(xml_request, "F_D176.V2", query.cause_of_death)

C4_Witness ==
  /\ pc = "built"
  /\ query.group_by = <<"year", "zip">>
  /\ query.cause_of_death = "plague"
  /\ ValuesOf(xml_request, "B_2") = <<"zip">>
  /\ ValuesOf(xml_request, "F_D176.V2") = <<"plague">>

(***************************************************************************)
(* Template-patch compilation: a request built from a parsed template      *)
(* (query_from_xml_file, execute_query and execute_batch_queries of        *)
(* app.py, modify_age_filter of run_by_age.py).                            *)
(***************************************************************************)
AcceptName == "accept_datause_restrictions"

\* "Ensure accept_datause_restrictions is set": the first parameter of that name
\* gets its <value> text set to "true" when it has a <value>; the parameter is
\* appended only when no parameter has that name.
EnsureAccepted(root) ==
  IF FirstNamed(root, AcceptName) = 0 THEN Append(root, Param(AcceptName, "true"))
  ELSE SetFirstNamed(root, AcceptName, "true")

\* CDCWonderClient.query_from_xml_file, up to the request it sends.
QueryFromXmlFile(root) == EnsureAccepted(root)

\* run_by_age.modify_age_filter (and the loop body of app.execute_age_queries).
ModifyAgeFilter(root, age_code) == EnsureAccepted(SetFirstNamed(root, "V_D176.V5", age_code))

\* app.execute_query, template branch: the cause filter, then the acknowledgement.
ExecuteQueryTemplate(root, cause) ==
  EnsureAccepted(IF Truthy(cause) THEN SetFirstNamed(root, "F_D176.V2", CauseCode(cause))
                 ELSE root)

\* app.execute_batch_queries: the age parameter of the requested granularity.
AgeParam(age_granularity) ==
  IF age_granularity = "quinquennial" THEN "V_D176.V51" ELSE "V_D176.V5"

OldAgeParam(age_granularity) ==
  IF age_granularity = "decennial" THEN "V_D176.V51" ELSE "V_D176.V5"

\* The swap with a break after the first rewrite.
SwapAgeParam_FirstOnly(root, age_granularity) ==
  LET at == {i \in 1..Len(root) : /\ root[i].name # <<>>
                                  /\ root[i].values # <<>>
                                  /\ root[i].values[1] = OldAgeParam(age_granularity)} IN
  IF at = {} THEN root
  ELSE [root EXCEPT ![CHOOSE i \in at : \A k \in at : i <= k].values[1] =
                       AgeParam(age_granularity)]

\* Every parameter that has a <name> and whose first <value> text is the old
\* age parameter gets that text replaced by the new one.
SwapAgeParam(root, age_granularity) ==
  [i \in 1..Len(root) |->
     IF /\ root[i].name # <<>>
        /\ root[i].values # <<>>
        /\ root[i].values[1] = OldAgeParam(age_granularity)
     THEN [root[i] EXCEPT !.values[1] = AgeParam(age_granularity)]
     ELSE root[i]]

\* A gender step that writes "*All*" when the combination leaves gender open.
GenderFilter_Reset(root, gender) == SetFirstNamed(root, "V_D176.V7", gender)

GenderFilter(root, gender) ==
  IF gender # "*All*" THEN SetFirstNamed(root, "V_D176.V7", gender) ELSE root

RaceFilter(root, race) ==
  IF race # "*All*" THEN SetFirstNamed(root, "V_D176.V42", race) ELSE root

CauseFilter(root, cause) ==
  IF Truthy(cause) THEN SetFirstNamed(root, "F_D176.V2", CauseCode(cause)) ELSE root

AgeFilter(root, age, age_granularity) ==
  IF Truthy(age) THEN SetFirstNamed(root, AgeParam(age_granularity), age) ELSE root

\* app.execute_batch_queries: the request of one combination, from a freshly
\* parsed template.  Each step works on the tree the step before it left.
BatchRequest(root, c, age_granularity) ==
  CHOOSE request \in
    {EnsureAccepted(aged) : aged \in
      {AgeFilter(caused, c.age, age_granularity) : caused \in
        {CauseFilter(raced, c.cause) : raced \in
          {RaceFilter(gendered, c.race) : gendered \in
            {GenderFilter(swapped, c.gender) : swapped \in
              {SwapAgeParam(parsed, age_granularity) : parsed \in {root}}}}}}} : TRUE

(***************************************************************************)
(* Templates: each parameter the patches address is absent, present with a *)
(* value, or present without a <value> element.                            *)
(***************************************************************************)
Valueless(n) == [name |-> <<n>>, values |-> <<>>]

Nameless(v) == [name |-> <<>>, values |-> <<v>>]

Variants(n, texts) == {<<>>, <<Valueless(n)>>} \cup {<<Param(n, t)>> : t \in texts}

Templates ==
  {a \o b \o f \o v5 \o v51 \o v7 \o v42 :
     a \in Variants(AcceptName, {"false", "true"}),
     b \in {<<Param("B_1", "D176.V5")>>, <<Param("B_1", "V_D176.V51")>>,
            <<Nameless("V_D176.V5")>>},
     f \in {<<>>, <<Param("F_D176.V2", "*All*")>>},
     v5 \in {<<>>, <<Param("V_D176.V5", "*All*")>>},
     v51 \in {<<>>, <<Param("V_D176.V51", "*All*")>>},
     v7 \in Variants("V_D176.V7", {"*All*"}),
     v42 \in {<<>>, <<Param("V_D176.V42", "*All*")>>}}

\* What one template-based call is given: a combination of the batch (gender,
\* race, cause, age), the age granularity, and the operation that builds.
Patches ==
  [gender : {"*All*", "M"}, race : {"*All*", "2106-3"}, cause : {"", "covid19"},
   age : {None, "1"}, age_granularity : {"decennial", "quinquennial"}]

InitTemplate ==
  /\ pc = "start"
  /\ NoJobs
  /\ template \in Templates
  /\ patch \in Patches
  /\ query = NoQuery
  /\ xml_request = <<>>
  /\ response = NoDoc
  /\ result = None

DoQueryFromXmlFile ==
  /\ pc = "start"
  /\ xml_request' = QueryFromXmlFile(template)
  /\ pc' = "query_from_xml_file"
  /\ UNCHANGED <<query, template, patch, response, result, jobs, threads, disk, script>>

DoModifyAgeFilter ==
  /\ pc = "start"
  /\ Truthy(patch.age)
  /\ xml_request' = ModifyAgeFilter(template, patch.age)
  /\ pc' = "modify_age_filter"
  /\ UNCHANGED <<query, template, patch, response, result, jobs, threads, disk, script>>

DoExecuteQueryTemplate ==
  /\ pc = "start"
  /\ xml_request' = ExecuteQueryTemplate(template, patch.cause)
  /\ pc' = "execute_query"
  /\ UNCHANGED <<query, template, patch, response, result, jobs, threads, disk, script>>

DoBatchRequest ==
  /\ pc = "start"
  /\ xml_request' = BatchRequest(template, patch, patch.age_granularity)
  /\ pc' = "execute_batch_queries"
  /\ UNCHANGED <<query, template, patch, response, result, jobs, threads, disk, script>>

NextTemplate ==
  \/ DoQueryFromXmlFile
  \/ DoModifyAgeFilter
  \/ DoExecuteQueryTemplate
  \/ DoBatchRequest

SpecTemplate == InitTemplate /\ [][NextTemplate]_vars

\* Some parameter named n carries text as a value.
Carries(root, n, text) ==
  \E i \in NamedAt(root, n) : \E k \in 1..Len(root[i].values) : root[i].values[k] = text

(***************************************************************************)
(* C5. After the acknowledgement step of every template-based build, the   *)
(* request holds a parameter accept_datause_restrictions with the value    *)
(* "true", whatever the template.                                          *)
(***************************************************************************)
C5_Acknowledged ==
  pc \in {"query_from_xml_file", "execute_batch_queries", "modify_age_filter"} =>
     Carries(xml_request, AcceptName, "true")

(***************************************************************************)
(* C6. A filter the combination requires is carried by the request even    *)
(* when the template has no parameter of its name: the parameter is        *)
(* appended with the requested value, not dropped.                         *)
(***************************************************************************)
C6_FiltersCarried ==
  /\ pc = "execute_batch_queries" =>
       /\ patch.gender # "*All*" => Carries(xml_request, "V_D176.V7", patch.gender)
       /\ patch.race # "*All*" => Carries(xml_request, "V_D176.V42", patch.race)
       /\ Truthy(patch.cause) =>
            Carries(xml_request, "F_D176.V2", CAUSES_OF_DEATH[patch.cause])
       /\ Truthy(patch.age) =>
            Carries(xml_request,
                    IF patch.age_granularity = "quinquennial" THEN "V_D176.V51"
                    ELSE "V_D176.V5",
                    patch.age)
  /\ pc = "execute_query" =>
       (Truthy(patch.cause) => Carries(xml_request, "F_D176.V2", CAUSES_OF_DEATH[patch.cause]))
  /\ pc = "modify_age_filter" => Carries(xml_request, "V_D176.V5", patch.age)

(***************************************************************************)
(* CDCWonderClient._parse_response: the response decoder.                  *)
(*                                                                         *)
(* A response document is a record of what the decoder's searches find in  *)
(* it, each in document order:                                             *)
(*   wellformed          ET.fromstring parses it                           *)
(*   root                the tag of its root element                       *)
(*   errors              the texts of the <error> elements below the root  *)
(*                       (what root.find(".//error") searches)             *)
(*   variables           <variable code label> with their <hier-level>s    *)
(*   measures            <measure code label>                              *)
(*   request_parameters  the echoed <parameter>s                           *)
(*   selections_all      the <measure-selections-all> blocks (codes)       *)
(*   selections          the <measure-selections> blocks (codes)           *)
(*   tables              the <data-table>s, each the list of its <r> rows, *)
(*                       a row the list of its <c> cells                   *)
(*   caveats             the texts of its <caveat> elements                *)
(* A cell is [v, l, text, c, dt]: its attributes and text, None if absent. *)
(***************************************************************************)
OrEmpty(s) == IF s = None THEN "" ELSE s

\* name.startswith("B_"), over the parameter names of the model's documents.
StartsWithB(name) == name \in {"B_1", "B_2", "B_3", "B_4", "B_5", "B_6"}

\* The labelled codes of a document, as the dict the two loops build: a
\* <variable>'s own code first, then its <hier-level>s.
RECURSIVE HierLabels(_, _)
HierLabels(labels, hier) ==
  IF hier = <<>> THEN labels
  ELSE HierLabels(IF Head(hier).code # "" /\ Head(hier).label # ""
                  THEN DictSet(labels, Head(hier).code, Head(hier).label) ELSE labels,
                  Tail(hier))

RECURSIVE VarLabels(_, _)
VarLabels(labels, variables) ==
  IF variables = <<>> THEN labels
  ELSE LET var == Head(variables)
           own == IF var.code # "" /\ var.label # ""
                  THEN DictSet(labels, var.code, var.label) ELSE labels
       IN VarLabels(HierLabels(own, var.hier), Tail(variables))

RECURSIVE MeasureLabels(_, _)
MeasureLabels(labels, measures) ==
  IF measures = <<>> THEN labels
  ELSE MeasureLabels(IF Head(measures).code # "" /\ Head(measures).label # ""
                     THEN DictSet(labels, Head(measures).code, Head(measures).label)
                     ELSE labels,
                     Tail(measures))

\* d.get(k, default) on a dict kept as a list of <<key, value>>.
Lookup(d, k, default) == IF KeyIndex(d, k) = 0 THEN default ELSE d[KeyIndex(d, k)][2]

\* An echoed parameter that names a grouping column.
IsGroupBy(param) ==
  /\ param.name # <<>>
  /\ param.values # <<>>
  /\ StartsWithB(OrEmpty(param.name[1]))
  /\ OrEmpty(param.values[1]) # ""
  /\ OrEmpty(param.values[1]) # "*None*"

\* groupby_codes: the values of the B_ parameters, in document order.
GroupByCodes(doc) ==
  LET kept == SelectSeq(doc.request_parameters, IsGroupBy) IN
  [i \in 1..Len(kept) |-> OrEmpty(kept[i].values[1])]

GroupByLabels(doc) ==
  LET codes == GroupByCodes(doc)
      var_labels == VarLabels(<<>>, doc.variables)
  IN [i \in 1..Len(codes) |-> Lookup(var_labels, codes[i], codes[i])]

\* The block of selected measures: the first measure-selections-all, else the
\* first measure-selections, else none (the empty list of codes).
MeasureSelections(doc) ==
  IF doc.selections_all # <<>> THEN doc.selections_all[1]
  ELSE IF doc.selections # <<>> THEN doc.selections[1]
  ELSE <<>>

SelectedMeasures(doc) ==
  LET measure_labels == MeasureLabels(<<>>, doc.measures)
      known == SelectSeq(MeasureSelections(doc),
                         LAMBDA code : KeyIndex(measure_labels, code) # 0)
  IN [i \in 1..Len(known) |-> Lookup(measure_labels, known[i], "")]

Headers(doc) == GroupByLabels(doc) \o SelectedMeasures(doc)

\* val = cell.get("v") or cell.get("l") or cell.text or ""
CellValue(cell) ==
  IF Truthy(cell.v) THEN cell.v
  ELSE IF Truthy(cell.l) THEN cell.l
  ELSE IF Truthy(cell.text) THEN cell.text
  ELSE ""

\* A skip test that looks at attribute c alone.
IsTotalRow_OnlyC(cells) == cells # <<>> /\ Truthy(cells[1].c)

\* first_cell is not None and (first_cell.get("c") or first_cell.get("dt"))
IsTotalRow(cells) == cells # <<>> /\ (Truthy(cells[1].c) \/ Truthy(cells[1].dt))

\* A row loop that prepends nothing for the cells a row omits.
CarriedPrefix_Nothing(last, missing_cols) == <<>>

\* The carried-forward cells a row starts with: last_groupby_values[i] for
\* i in range(missing_cols) with i < num_groupby_cols.
CarriedPrefix(last, missing_cols) ==
  IF missing_cols <= 0 THEN <<>>
  ELSE SubSeq(last, 1, IF missing_cols < Len(last) THEN missing_cols ELSE Len(last))

\* The position Python's list[idx] addresses in a list of n elements (1-based);
\* outside 1..n the access raises IndexError.
PyIndex(idx, n) == IF idx >= 0 THEN idx + 1 ELSE n + idx + 1

\* A cell loop that never writes to last_groupby_values.
UpdateLast_Never(last, cells, i, missing_cols) == [last |-> last, raised |-> FALSE]

\* The cell loop's effect on last_groupby_values, from cell i (1-based) on:
\* [last, raised].
RECURSIVE UpdateLast(_, _, _, _)
UpdateLast(last, cells, i, missing_cols) ==
  IF i > Len(cells) THEN [last |-> last, raised |-> FALSE]
  ELSE LET val == CellValue(cells[i])
           actual_col_idx == missing_cols + (i - 1)
           at == PyIndex(actual_col_idx, Len(last))
       IN IF actual_col_idx < Len(last) /\ val # ""
          THEN IF at \in 1..Len(last)
               THEN UpdateLast([last EXCEPT ![at] = val], cells, i + 1, missing_cols)
               ELSE [last |-> last, raised |-> TRUE]
          ELSE UpdateLast(last, cells, i + 1, missing_cols)

\* row_data of a row that is not a total row.
RowData(last, cells, expected_cols) ==
  CarriedPrefix(last, expected_cols - Len(cells))
  \o [i \in 1..Len(cells) |-> CellValue(cells[i])]

\* The row loop from row k on: [data, raised].
RECURSIVE ParseRows(_, _, _, _, _)
ParseRows(rows, k, last, data, expected_cols) ==
  IF k > Len(rows) THEN [data |-> data, raised |-> FALSE]
  ELSE IF IsTotalRow(rows[k]) THEN ParseRows(rows, k + 1, last, data, expected_cols)
  ELSE LET row_data == RowData(last, rows[k], expected_cols)
           upd == UpdateLast(last, rows[k], 1, expected_cols - Len(rows[k]))
       IN IF upd.raised THEN [data |-> data, raised |-> TRUE]
          ELSE ParseRows(rows, k + 1, upd.last,
                         IF row_data # <<>> THEN Append(data, row_data) ELSE data,
                         expected_cols)

\* caveat.text.strip(), over the caveat texts of the model's documents.
Strip == [x \in {"", "  ", " Provisional. ", "Suppressed."} |->
            IF x = " Provisional. " THEN "Provisional."
            ELSE IF x = "  " THEN "" ELSE x]

Caveats(doc) ==
  LET kept == SelectSeq(doc.caveats, LAMBDA t : Strip[OrEmpty(t)] # "") IN
  [i \in 1..Len(kept) |-> Strip[OrEmpty(kept[i])]]

ParseFailure == "Failed to parse XML response"

Returned(data, headers, caveats, error) ==
  [status |-> "returned", data |-> data, headers |-> headers, caveats |-> caveats,
   error |-> error]

\* An exception other than ET.ParseError leaves _parse_response.
Raised(exception) == [status |-> "raised", exception |-> exception]

\* A handler that lets the parse error leave the decoder.
OnParseError_Raise(res) == [status |-> "raised", exception |-> "ParseError"]

\* except ET.ParseError as e: result["error"] = f"Failed to parse XML response: {e}"
OnParseError(res) == [res EXCEPT !.error = ParseFailure]

ParseResponse(doc) ==
  IF ~doc.wellformed THEN OnParseError(Returned(<<>>, <<>>, <<>>, None))
  ELSE IF doc.errors # <<>> THEN Returned(<<>>, <<>>, <<>>, doc.errors[1])
  ELSE LET headers == Headers(doc)
           num_groupby_cols == Len(GroupByCodes(doc))
           rows == IF doc.tables = <<>> THEN <<>> ELSE doc.tables[1]
           parsed == ParseRows(rows, 1, [i \in 1..num_groupby_cols |-> ""], <<>>,
                               Len(headers))
       IN IF parsed.raised THEN Raised("IndexError")
          ELSE Returned(parsed.data, headers, Caveats(doc), None)

(***************************************************************************)
(* Response documents the model decodes.  A document echoes G grouping     *)
(* slots and selects M measures; its table has up to MaxRows rows of up to *)
(* MaxCells cells.  The cells of row k are written the k-th way a cell can *)
(* carry a value (attribute v, attribute l, text), with a value that names *)
(* the row; a total row is marked on its first cell (attribute c or dt);   *)
(* an empty cell of an even row carries an empty c attribute.              *)
(***************************************************************************)
MaxRows == 3

MaxCells == 2

Blank == [v |-> None, l |-> None, text |-> None, c |-> None, dt |-> None]

Token(k) == <<"a", "b", "c", "d", "e", "f">>[k]

ValueCell(k) ==
  IF k % 3 = 1 THEN [Blank EXCEPT !.v = Token(k)]
  ELSE IF k % 3 = 2 THEN [Blank EXCEPT !.v = "", !.l = Token(k)]
  ELSE [Blank EXCEPT !.text = Token(k)]

EmptyCell(k) == IF k % 2 = 1 THEN Blank ELSE [Blank EXCEPT !.v = "", !.text = "", !.c = ""]

MarkTotal(cell, k) == IF k % 2 = 1 THEN [cell EXCEPT !.c = "1"] ELSE [cell EXCEPT !.dt = "17"]

\* The rows row k may be: any cells, and the total rows (value cells, the first
\* one marked).
RowsAt(k) ==
  SeqsUpTo({ValueCell(k), EmptyCell(k)}, MaxCells)
  \cup {[r EXCEPT ![1] = MarkTotal(r[1], k)] : r \in SeqsUpTo({ValueCell(k)}, MaxCells) \ {<<>>}}

RECURSIVE Tables(_)
Tables(n) ==
  IF n = 0 THEN {<<>>}
  ELSE LET shorter == Tables(n - 1) IN
       shorter \cup {Append(t, r) : t \in {u \in shorter : Len(u) = n - 1}, r \in RowsAt(n)}

GroupCodes == <<"D176.V5", "D176.V100-level1">>

\* The echo of a request with the first G grouping slots used.
Echo(G) ==
  <<Param("dataset_code", "D176")>>
  \o [i \in 1..NumSlots |-> Param(SlotName(i), IF i <= G THEN GroupCodes[i] ELSE "*None*")]

Shapes == {<<0, 1>>, <<1, 1>>, <<2, 1>>}

Document(shape, rows, errors, root, wellformed) ==
  [wellformed |-> wellformed,
   root |-> root,
   errors |-> errors,
   variables |-> <<[code |-> "D176.V5", label |-> "Ten-Year Age Groups", hier |-> <<>>],
                   [code |-> "D176.V100", label |-> "Year/Month",
                    hier |-> <<[code |-> "D176.V100-level1", label |-> "Year"],
                               [code |-> "D176.V100-level2", label |-> "Month"]>>]>>,
   measures |-> <<[code |-> "D176.M1", label |-> "Deaths"],
                  [code |-> "D176.M2", label |-> "Population"]>>,
   request_parameters |-> Echo(shape[1]),
   selections_all |-> IF shape[2] = 0 THEN <<>> ELSE <<<<"D176.M1">>>>,
   selections |-> <<>>,
   tables |-> <<rows>>,
   caveats |-> <<" Provisional. ", "  ", None>>]

TableDocs(n) == {Document(sh, rows, <<>>, "page", TRUE) : sh \in Shapes, rows \in Tables(n)}

\* Documents with an <error> element (as the root, or below it, with or without
\* text), clean ones, and bodies that do not parse.
ErrorTexts == {<<>>, <<None>>, <<"">>, <<"Invalid request">>, <<"Timeout", "Invalid request">>}

ErrorDocs ==
  {Document(sh, rows, errors, root, wf) :
     sh \in Shapes, rows \in Tables(1), errors \in ErrorTexts,
     root \in {"page", "error"}, wf \in BOOLEAN}

InitDecode ==
  /\ pc = "start"
  /\ NoJobs
  /\ response \in TableDocs(MaxRows)
  /\ query = NoQuery
  /\ xml_request = <<>>
  /\ template = <<>>
  /\ patch = None
  /\ result = None

InitDecodeErr ==
  /\ pc = "start"
  /\ NoJobs
  /\ response \in ErrorDocs
  /\ query = NoQuery
  /\ xml_request = <<>>
  /\ template = <<>>
  /\ patch = None
  /\ result = None

\* result = self._parse_response(response.text)
Decode ==
  /\ pc = "start"
  /\ result' = ParseResponse(response)
  /\ pc' = "decoded"
  /\ UNCHANGED <<query, xml_request, template, patch, response, jobs, threads, disk, script>>

NextDecode == Decode

SpecDecode == InitDecode /\ [][NextDecode]_vars

SpecDecodeErr == InitDecodeErr /\ [][NextDecode]_vars

\* The decoder returned a table (no exception, no error).
Decoded == pc = "decoded" /\ result.status = "returned" /\ result.error = None

RawRows == IF response.tables = <<>> THEN <<>> ELSE response.tables[1]

EchoedG == Cardinality({i \in 1..Len(response.request_parameters) :
                          /\ response.request_parameters[i].name[1] \in {"B_1", "B_2", "B_3", "B_4", "B_5"}
                          /\ response.request_parameters[i].values[1] # "*None*"})

\* The first cell carries a non-empty c or dt attribute.
Flagged(row) == row # <<>> /\ (row[1].c \notin {None, ""} \/ row[1].dt \notin {None, ""})

Unflagged == SelectSeq(RawRows, LAMBDA r : ~Flagged(r))

(***************************************************************************)
(* C7. A response that contains an error element decodes to a result with  *)
(* a non-empty error and empty rows and headers, whatever the table in the *)
(* document and whatever the error element's own text.                     *)
(***************************************************************************)
C7_ErrorDecoded ==
  (pc = "decoded" /\ response.wellformed
     /\ (response.root = "error" \/ response.errors # <<>>)) =>
     /\ result.status = "returned"
     /\ result.error \notin {None, ""}
     /\ result.data = <<>>
     /\ result.headers = <<>>

(***************************************************************************)
(* C8. In every response decoded without error, each row of the data is as *)
(* long as the headers, however many cells the raw row carries.            *)
(***************************************************************************)
C8_RowsRectangular ==
  Decoded => \A k \in 1..Len(result.data) : Len(result.data[k]) = Len(result.headers)

(***************************************************************************)
(* C9. Carry-forward: when surviving row k omits its leading j grouping    *)
(* cells, decoded row k holds in those j positions the values decoded row  *)
(* k-1 holds there, also when such a value is the empty string.            *)
(***************************************************************************)
\* Row r of a table with E columns, G of them grouping columns, omits only
\* leading grouping cells (between 0 and G of them).
C9_WellFormed(r, E, G) == E - Len(r) \in 0..G

C9_AsStated ==
  (Decoded /\ EchoedG >= 1) =>
    LET E == Len(result.headers)
        G == EchoedG
    IN \A k \in 2..Len(Unflagged) :
         (/\ C9_WellFormed(Unflagged[k-1], E, G)
          /\ C9_WellFormed(Unflagged[k], E, G)) =>
            \A p \in 1..(E - Len(Unflagged[k])) :
               result.data[k][p] = result.data[k-1][p]

\* The latest non-empty value of column p in decoded rows 1..k, "" if none.
RECURSIVE C9_LatestNonEmpty(_, _, _)
C9_LatestNonEmpty(data, k, p) ==
  IF k = 0 THEN ""
  ELSE IF data[k][p] # "" THEN data[k][p]
  ELSE C9_LatestNonEmpty(data, k - 1, p)

\* C9 amended: decoded row k repeats decoded row k-1's value in an omitted
\* position when that value is not empty; an empty value in a grouping column
\* does not replace the carried value, so row k then holds the latest non-empty
\* value decoded in that column ("" when there is none).
C9_CarryForward ==
  (Decoded /\ EchoedG >= 1) =>
    LET E == Len(result.headers)
        G == EchoedG
    IN \A k \in 2..Len(Unflagged) :
         (\A i \in 1..k : C9_WellFormed(Unflagged[i], E, G)) =>
            \A p \in 1..(E - Len(Unflagged[k])) :
               /\ result.data[k-1][p] # "" => result.data[k][p] = result.data[k-1][p]
               /\ result.data[k][p] = C9_LatestNonEmpty(result.data, k - 1, p)

C9_Witness ==
  /\ Decoded
  /\ EchoedG = 2
  /\ Len(Unflagged) = 3
  /\ Len(RawRows) = 3
  /\ Len(RawRows[1]) = 2 /\ Len(RawRows[2]) = 2 /\ Len(RawRows[3]) = 1
  /\ result.data[1] = <<"", "a", "a">>
  /\ result.data[2] = <<"", "b", "b">>
  /\ result.data[3] = <<"", "b", "c">>

(***************************************************************************)
(* C10. Rows flagged as totals never appear in the decoded data: it has as *)
(* many rows as the table has rows that are not flagged, in document       *)
(* order.                                                                  *)
(***************************************************************************)
\* Decoded row d comes from raw row r: it ends with r's cell values.
C10_From(d, r) ==
  /\ Len(d) >= Len(r)
  /\ \A i \in 1..Len(r) : d[Len(d) - Len(r) + i] = CellValue(r[i])

\* The first cell carries a marker attribute, c or dt.
C10_HasMarker(row) == row # <<>> /\ (row[1].c # None \/ row[1].dt # None)

C10_Kept == SelectSeq(Unflagged, LAMBDA r : ~(r = <<>> /\ EchoedG = 0))

EchoValues == {"D176.V5", "D176.V100-level1", "D176.V9", "*None*"}

\* The echoed slots as parameters, in slot order.
EchoOf(b1, b2, b3) ==
  <<Param("B_1", b1), Param("B_2", b2), Param("B_3", b3),
    Param("B_4", "*None*"), Param("B_5", "*None*")>>

Reverse(s) == [i \in 1..Len(s) |-> s[Len(s) + 1 - i]]

Rotate(s) == IF s = <<>> THEN s ELSE Tail(s) \o <<Head(s)>>

EchoOrders(s) == {s, Reverse(s), Rotate(s)}

EchoDocs ==
  {[Document(<<0, 1>>, <<>>, <<>>, "page", TRUE) EXCEPT
      !.request_parameters = <<Param("dataset_code", "D176")>> \o e] :
     e \in UNION {EchoOrders(EchoOf(b1, b2, b3)) : b1 \in EchoValues, b2 \in EchoValues,
                                                  b3 \in EchoValues}}

InitDecodeEcho ==
  /\ pc = "start"
  /\ NoJobs
  /\ response \in EchoDocs
  /\ query = NoQuery
  /\ xml_request = <<>>
  /\ template = <<>>
  /\ patch = None
  /\ result = None

SpecDecodeEcho == InitDecodeEcho /\ [][NextDecode]_vars

(***************************************************************************)
(* C11. The grouping prefix of the decoded headers lists the labels of the *)
(* echoed slots B_1..B_5 in slot order, the none slots left out, whatever  *)
(* the order of the echoed parameters in the document.                     *)
(***************************************************************************)
\* The value the document echoes for slot B_i.
C11_SlotValue(i) ==
  LET at == {k \in 1..Len(response.request_parameters) :
               response.request_parameters[k].name = <<SlotName(i)>>}
  IN response.request_parameters[CHOOSE k \in at : TRUE].values[1]

C11_SlotLabels ==
  LET used == SelectSeq([i \in 1..NumSlots |-> i], LAMBDA i : C11_SlotValue(i) # NoneSentinel)
      var_labels == VarLabels(<<>>, response.variables)
  IN [n \in 1..Len(used) |-> Lookup(var_labels, C11_SlotValue(used[n]), C11_SlotValue(used[n]))]

C11_HeadersInSlotOrder ==
  Decoded =>
    /\ Len(result.headers) >= Len(C11_SlotLabels)
    /\ SubSeq(result.headers, 1, Len(C11_SlotLabels)) = C11_SlotLabels
    /\ Len(result.headers) = Len(C11_SlotLabels) + Len(SelectedMeasures(response))

(***************************************************************************)
(* C12. A response body that does not parse decodes to a result whose      *)
(* error is the parse-failure message and whose headers and data are       *)
(* empty; no exception leaves the decoder.                                 *)
(***************************************************************************)
C12_ParseFailureReturned ==
  (pc = "decoded" /\ ~response.wellformed) =>
     /\ result.status = "returned"
     /\ result.error = ParseFailure
     /\ result.headers = <<>>
     /\ result.data = <<>>

\* A broken body that carries a table row and an error element was decoded.
C12_Witness ==
  /\ pc = "decoded"
  /\ ~response.wellformed
  /\ response.tables[1] # <<>>
  /\ response.errors # <<>>
  /\ result.status = "returned"
  /\ result.error = ParseFailure

(***************************************************************************)
(* The Query Executor: _send_request posts the request and decodes the     *)
(* body of the response; query and query_from_xml_file compile a request   *)
(* and hand it to _send_request.  An exchange is what requests.post does   *)
(* with one request: it raises (no connection, timeout), or it returns a   *)
(* response with a status code and a body.                                 *)
(***************************************************************************)
Exchange(raises, status_code, text) ==
  [raises |-> raises, status_code |-> status_code, text |-> text]

\* response.raise_for_status(): HTTPError for a 4xx or 5xx status.
RaiseForStatus(status_code) == status_code >= 400 /\ status_code < 600

SendRequest(xml, exchange) ==
  IF exchange.raises # None THEN Raised(exchange.raises)
  ELSE IF RaiseForStatus(exchange.status_code) THEN Raised("HTTPError")
  ELSE ParseResponse(exchange.text)

Bodies ==
  {Document(sh, rows, errors, "page", wf) :
     sh \in {<<1, 1>>}, rows \in Tables(1), errors \in {<<>>, <<"Invalid request">>},
     wf \in BOOLEAN}

Exchanges ==
  {Exchange(raises, 0, NoDoc) : raises \in {"ConnectionError", "Timeout"}}
  \cup {Exchange(None, status_code, text) : status_code \in {200, 404, 500}, text \in Bodies}

InitSend ==
  /\ pc = "start"
  /\ NoJobs
  /\ query \in {NoQuery, [NoQuery EXCEPT !.cause_of_death = "covid19"]}
  /\ template \in {<<>>, <<Param("B_1", "D176.V1-level1")>>}
  /\ response \in Exchanges
  /\ patch = None
  /\ xml_request = <<>>
  /\ result = None

\* client._send_request(xml_request)
CallSendRequest ==
  /\ pc = "start"
  /\ xml_request' = template
  /\ result' = SendRequest(template, response)
  /\ pc' = "_send_request"
  /\ UNCHANGED <<query, template, patch, response, jobs, threads, disk, script>>

\* client.query(**query)
CallQuery ==
  /\ pc = "start"
  /\ xml_request' = BuildQueryXml(query)
  /\ result' = SendRequest(BuildQueryXml(query), response)
  /\ pc' = "query"
  /\ UNCHANGED <<query, template, patch, response, jobs, threads, disk, script>>

\* client.query_from_xml_file(xml_path)
CallQueryFromXmlFile ==
  /\ pc = "start"
  /\ xml_request' = QueryFromXmlFile(template)
  /\ result' = SendRequest(QueryFromXmlFile(template), response)
  /\ pc' = "query_from_xml_file"
  /\ UNCHANGED <<query, template, patch, response, jobs, threads, disk, script>>

NextSend ==
  \/ CallSendRequest
  \/ CallQuery
  \/ CallQueryFromXmlFile

SpecSend == InitSend /\ [][NextSend]_vars

(***************************************************************************)
(* C13. Every transport-level failure (the post raises, or the response    *)
(* has a non-success status) comes back from the Query Executor as a       *)
(* result with its error set; the failure is never raised to the caller.   *)
(***************************************************************************)
C13_TransportFailure == response.raises # None \/ response.status_code \notin 200..299

C13_FailureSurfaced ==
  (pc # "start" /\ C13_TransportFailure) =>
     /\ result.status = "returned"
     /\ result.error \notin {None, ""}

(***************************************************************************)
(* The web application's batch driver, app.execute_batch_queries, run by a *)
(* worker thread per job.  jobs is the shared job table the status         *)
(* endpoint reads; threads holds each worker's local variables and its     *)
(* position; disk is the list of files written, in the order of the        *)
(* writes.  Each write to the job table is a step of its own.  Here        *)
(* template is the template file: <<>> when there is no (readable) file,   *)
(* <<root>> when it parses to the parameter list root.  A value that is    *)
(* None until it is set (a job's result, combined_headers) is <<>> until   *)
(* then and <<value>> after.                                               *)
(***************************************************************************)
GENDER_LABELS == <<<<"M", "male">>, <<"F", "female">>, <<"*All*", "all">>>>

RACE_LABELS ==
  <<<<"2106-3", "white">>, <<"2054-5", "black">>, <<"1002-5", "aian">>, <<"A", "asian">>,
    <<"NHOPI", "nhopi">>, <<"*All*", "all">>>>

CAUSE_LABELS ==
  <<<<"", "all_causes">>, <<"covid19", "covid">>, <<"heart_disease", "heart">>,
    <<"cancer", "cancer">>, <<"accidents", "accidents">>, <<"stroke", "stroke">>,
    <<"alzheimers", "alzheimers">>, <<"diabetes", "diabetes">>,
    <<"influenza_pneumonia", "flu_pneumonia">>, <<"drug_overdose", "overdose">>>>

AGE_DECENNIAL ==
  <<<<"1", "under1">>, <<"1-4", "1_4">>, <<"5-14", "5_14">>, <<"15-24", "15_24">>,
    <<"25-34", "25_34">>, <<"35-44", "35_44">>, <<"45-54", "45_54">>, <<"55-64", "55_64">>,
    <<"65-74", "65_74">>, <<"75-84", "75_84">>, <<"85+", "85plus">>>>

AGE_QUINQUENNIAL ==
  <<<<"1", "under1">>, <<"1-4", "1_4">>, <<"5-9", "5_9">>, <<"10-14", "10_14">>,
    <<"15-19", "15_19">>, <<"20-24", "20_24">>, <<"25-29", "25_29">>, <<"30-34", "30_34">>,
    <<"35-39", "35_39">>, <<"40-44", "40_44">>, <<"45-49", "45_49">>, <<"50-54", "50_54">>,
    <<"55-59", "55_59">>, <<"60-64", "60_64">>, <<"65-69", "65_69">>, <<"70-74", "70_74">>,
    <<"75-79", "75_79">>, <<"80-84", "80_84">>, <<"85-89", "85_89">>, <<"90-94", "90_94">>,
    <<"95-99", "95_99">>, <<"100+", "100plus">>, <<"NS", "not_stated">>>>

GENDER_READABLE == <<<<"M", "Male">>, <<"F", "Female">>, <<"*All*", "All">>>>

RACE_READABLE ==
  <<<<"2106-3", "White">>, <<"2054-5", "Black">>,
    <<"1002-5", "American Indian/Alaska Native">>, <<"A", "Asian">>,
    <<"NHOPI", "Native Hawaiian/Pacific Islander">>, <<"*All*", "All">>>>

CAUSE_READABLE ==
  <<<<"", "All Causes">>, <<"covid19", "COVID-19">>, <<"heart_disease", "Heart Disease">>,
    <<"cancer", "Cancer">>, <<"accidents", "Accidents">>, <<"stroke", "Stroke">>,
    <<"alzheimers", "Alzheimer's">>, <<"diabetes", "Diabetes">>,
    <<"influenza_pneumonia", "Influenza/Pneumonia">>, <<"drug_overdose", "Drug Overdose">>>>

\* The age groups a batch cycles through are the first MaxAges keys of the
\* granularity's table.
MaxAges == 2

AgeGroupsDict(age_granularity) ==
  IF age_granularity = "quinquennial" THEN AGE_QUINQUENNIAL ELSE AGE_DECENNIAL

\* list(age_groups_dict.keys()) if age_cycle else [None]
AgeGroups(age_granularity, age_cycle) ==
  IF age_cycle
  THEN [k \in 1..MaxAges |-> AgeGroupsDict(age_granularity)[k][1]]
  ELSE <<None>>

RECURSIVE Concat(_)
Concat(ss) == IF ss = <<>> THEN <<>> ELSE Head(ss) \o Concat(Tail(ss))

\* A product in which the first list varies fastest.
Product_FirstFastest(genders, races, causes, age_groups) ==
  Concat([a \in 1..Len(age_groups) |->
    Concat([c \in 1..Len(causes) |->
      Concat([r \in 1..Len(races) |->
        [g \in 1..Len(genders) |->
           [gender |-> genders[g], race |-> races[r], cause |-> causes[c],
            age |-> age_groups[a]]]])])])

\* list(itertools.product(genders, races, causes, age_groups))
Product(genders, races, causes, age_groups) ==
  Concat([g \in 1..Len(genders) |->
    Concat([r \in 1..Len(races) |->
      Concat([c \in 1..Len(causes) |->
        [a \in 1..Len(age_groups) |->
           [gender |-> genders[g], race |-> races[r], cause |-> causes[c],
            age |-> age_groups[a]]]])])])

RECURSIVE Join(_, _)
Join(sep, parts) ==
  IF parts = <<>> THEN ""
  ELSE IF Len(parts) = 1 THEN parts[1]
  ELSE parts[1] \o sep \o Join(sep, Tail(parts))

\* The labels a combination's file name is made of.
FileParts(c, age_granularity) ==
  (IF c.gender # "*All*" THEN <<Lookup(GENDER_LABELS, c.gender, c.gender)>> ELSE <<>>)
  \o (IF c.race # "*All*" THEN <<Lookup(RACE_LABELS, c.race, c.race)>> ELSE <<>>)
  \o (IF Truthy(c.cause) THEN <<Lookup(CAUSE_LABELS, c.cause, c.cause)>> ELSE <<>>)
  \o (IF Truthy(c.age) THEN <<Lookup(AgeGroupsDict(age_granularity), c.age, c.age)>> ELSE <<>>)

\* The part of the file name between "deaths_" and ".csv".
FileLabel(c, age_granularity) ==
  IF FileParts(c, age_granularity) # <<>> THEN Join("_", FileParts(c, age_granularity))
  ELSE "all"

FileName(c, age_granularity) == "deaths_" \o FileLabel(c, age_granularity) \o ".csv"

\* The pairs <<i, total>>, total <= 200, for which the double (i / total) * 100
\* lies just below the integer 100 * i / total, e.g. (29 / 50) * 100 =
\* 57.99999999999999.
RoundedDown ==
  {<<29, 50>>, <<29, 100>>, <<57, 100>>, <<58, 100>>, <<87, 150>>, <<58, 200>>,
   <<114, 200>>, <<116, 200>>}

\* int((i / total) * 100) in double arithmetic, for total <= 200.
Progress(i, total) ==
  IF <<i, total>> \in RoundedDown THEN (i * 100) \div total - 1 ELSE (i * 100) \div total

\* f"Query {i+1}/{total}: {filename}"
Current(i, total, filename) ==
  "Query " \o Str(i + 1) \o "/" \o Str(total) \o ": " \o filename

\* The provenance labels of a combination's rows in the combined table.
ProvenanceLabels(c, age_granularity, age_cycle) ==
  <<Lookup(GENDER_READABLE, c.gender, c.gender),
    Lookup(RACE_READABLE, c.race, c.race),
    Lookup(CAUSE_READABLE, c.cause, c.cause)>>
  \o (IF age_cycle
      THEN <<IF Truthy(c.age) THEN Lookup(AgeGroupsDict(age_granularity), c.age, "All")
             ELSE "All">>
      ELSE <<>>)

\* A combined header with the age column after the result's own columns.
CombinedHeaders_AgeLast(headers, age_cycle) ==
  <<"Gender", "Race", "Cause_of_Death">> \o headers
  \o (IF age_cycle THEN <<"Age_Filter">> ELSE <<>>)

\* combined_headers, when the first successful result fixes it.
CombinedHeaders(headers, age_cycle) ==
  <<"Gender", "Race", "Cause_of_Death">>
  \o (IF age_cycle THEN <<"Age_Filter">> ELSE <<>>) \o headers

\* str(e) of the exceptions of the model.
ExceptionText(exception) == exception

\* A file written by job j: its name and content, and the jobs running at the
\* time of the write.
FileWrite(name, j, headers, data) ==
  [name |-> name, job |-> j, headers |-> headers, data |-> data,
   during |-> {k \in JobIds : jobs[k].status = "running"}]

\* How the try block of one combination ends: the result is a success, the
\* result carries an error, or an exception was raised (by the call, or by
\* save_to_csv).
Outcome(t, res, saved) ==
  IF res.status = "raised" THEN "exception"
  ELSE IF Truthy(res.error) THEN "error"
  ELSE IF ~t.data.combine_files /\ ~saved THEN "exception"
  ELSE "success"

\* The log entry of a combination whose try block has ended: how it ended and,
\* for a success, the decoded table.
ReturnEvent(t, res, saved) ==
  [event |-> "return", i |-> t.i, outcome |-> Outcome(t, res, saved),
   headers |-> IF Outcome(t, res, saved) = "success" THEN res.headers ELSE <<>>,
   data |-> IF Outcome(t, res, saved) = "success" THEN res.data ELSE <<>>]

\* What the try block of one combination (send, then record) leaves in the
\* worker's files, combined_data and combined_headers, and on disk.
\* saved: whether save_to_csv could write the file.
RecordOutcome(t, j, res, saved) ==
  LET c == t.combinations[t.i + 1]
      d == t.data
      failure(text) == [name |-> t.filename, file |-> None, error |-> text]
  IN IF res.status = "raised"
     THEN [t |-> IF d.combine_files THEN t
                 ELSE [t EXCEPT !.files = Append(@, failure(ExceptionText(res.exception)))],
           written |-> <<>>]
     ELSE IF Truthy(res.error)
     THEN [t |-> IF d.combine_files THEN t
                 ELSE [t EXCEPT !.files = Append(@, failure(res.error))],
           written |-> <<>>]
     ELSE IF d.combine_files
     THEN [t |-> [t EXCEPT
                    !.combined_headers =
                       IF @ = <<>> THEN <<CombinedHeaders(res.headers, d.age_cycle)>> ELSE @,
                    !.combined_data =
                       @ \o [k \in 1..Len(res.data) |->
                               ProvenanceLabels(c, d.age_granularity, d.age_cycle)
                               \o res.data[k]]],
           written |-> <<>>]
     ELSE IF ~saved
     THEN [t |-> [t EXCEPT !.files = Append(@, failure(ExceptionText("OSError")))],
           written |-> <<>>]
     ELSE [t |-> [t EXCEPT !.files =
                    Append(@, [name |-> FileLabel(c, d.age_granularity),
                               file |-> t.filename, rows |-> Len(res.data)])],
           written |-> <<FileWrite(t.filename, j, res.headers, res.data)>>]

\* The template the batch reads, as a parsed parameter list.
MasterTemplate ==
  <<Param("B_1", "D176.V1-level1"), Param("B_2", "V_D176.V5"),
    Param("F_D176.V2", "*All*"), Param("V_D176.V5", "*All*"),
    Param("V_D176.V51", "*All*"), Param("V_D176.V7", "*All*"),
    Param("V_D176.V42", "*All*")>>

\* The bodies of POST /api/batch the model submits: those whose product has
\* at most MaxCombos combinations.
MaxCombos == 4

BatchData ==
  {d \in [genders : {<<"*All*">>, <<"M", "F">>},
          races : {<<"*All*">>, <<"2106-3">>},
          causes : {<<"covid19">>, <<"", "covid19">>},
          age_granularity : {"decennial", "quinquennial"},
          age_cycle : BOOLEAN,
          combine_files : BOOLEAN] :
     Len(d.genders) * Len(d.causes) * (IF d.age_cycle THEN MaxAges ELSE 1) <= MaxCombos}

\* What the service does with one request of a batch.
OkBody == Document(<<1, 1>>, <<<<ValueCell(1), ValueCell(1)>>>>, <<>>, "page", TRUE)

OtherBody == Document(<<0, 1>>, <<>>, <<>>, "page", TRUE)

ErrorBody == Document(<<1, 1>>, <<>>, <<"Invalid request">>, "page", TRUE)

BatchExchanges ==
  {Exchange("ConnectionError", 0, NoDoc), Exchange(None, 500, ErrorBody),
   Exchange(None, 200, ErrorBody), Exchange(None, 200, OkBody),
   Exchange(None, 200, OtherBody)}

\* jobs[job_id] = {"status": "running", "progress": 0, "result": None,
\*                 "error": None, "files": [], "current": ""}
NewBatchJob ==
  [status |-> "running", progress |-> 0, result |-> <<>>, error |-> None,
   files |-> <<>>, current |-> ""]

NewBatchThread(data) ==
  [kind |-> "batch", pc |-> "start", data |-> data, combinations |-> <<>>, i |-> 0,
   filename |-> "", request |-> <<>>, files |-> <<>>, combined_data |-> <<>>,
   combined_headers |-> <<>>, log |-> <<>>]

InitJobs ==
  /\ pc = "serving"
  /\ NoJobs
  /\ template \in {<<MasterTemplate>>, <<>>}
  /\ query = NoQuery
  /\ xml_request = <<>>
  /\ patch = None
  /\ response = NoDoc
  /\ result = None

\* POST /api/batch: run_batch registers the job and starts its thread.
RunBatch(j, data) ==
  /\ jobs[j] = NoJob
  /\ jobs' = [jobs EXCEPT ![j] = NewBatchJob]
  /\ threads' = [threads EXCEPT ![j] = NewBatchThread(data)]
  /\ UNCHANGED <<pc, query, xml_request, template, patch, response, result, disk, script>>

\* The template file is removed (or replaced by one that does not parse).
RemoveTemplate ==
  /\ template # <<>>
  /\ \E j \in JobIds : threads[j].pc \in {"loop", "current", "pause"}
  /\ template' = <<>>
  /\ UNCHANGED <<pc, query, xml_request, patch, response, result, jobs, threads, disk, script>>

\* Lines 375-432: the template check and the combinations.
BatchStart(j) ==
  /\ threads[j].kind = "batch" /\ threads[j].pc = "start"
  /\ LET t == threads[j] d == t.data IN
     IF template = <<>>
     THEN /\ jobs' = [jobs EXCEPT ![j].error = "Template XML file not found"]
          /\ threads' = [threads EXCEPT ![j].pc = "error_status"]
     ELSE /\ threads' = [threads EXCEPT
                ![j].combinations = Product(d.genders, d.races, d.causes,
                                            AgeGroups(d.age_granularity, d.age_cycle)),
                ![j].pc = "loop"]
          /\ UNCHANGED jobs
  /\ UNCHANGED <<pc, query, xml_request, template, patch, response, result, disk, script>>

\* An error handler that ends the thread without writing the status.
BatchErrorStatus_Silent(j) ==
  /\ threads[j].kind = "batch" /\ threads[j].pc = "error_status"
  /\ threads' = [threads EXCEPT ![j].pc = "done"]
  /\ UNCHANGED <<pc, query, xml_request, template, patch, response, result, jobs, disk, script>>

\* Lines 379 and 580: jobs[job_id]["status"] = "error".
BatchErrorStatus(j) ==
  /\ threads[j].kind = "batch" /\ threads[j].pc = "error_status"
  /\ jobs' = [jobs EXCEPT ![j].status = "error"]
  /\ threads' = [threads EXCEPT ![j].pc = "done"]
  /\ UNCHANGED <<pc, query, xml_request, template, patch, response, result, disk, script>>

\* Lines 435-448: the next combination, its file name, the progress.
BatchProgress(j) ==
  /\ threads[j].kind = "batch" /\ threads[j].pc = "loop"
  /\ LET t == threads[j] total == Len(t.combinations) IN
     /\ t.i < total
     /\ jobs' = [jobs EXCEPT ![j].progress = Progress(t.i, total)]
     /\ threads' = [threads EXCEPT
           ![j].filename = FileName(t.combinations[t.i + 1], t.data.age_granularity),
           ![j].pc = "current"]
  /\ UNCHANGED <<pc, query, xml_request, template, patch, response, result, disk, script>>

\* A loop body that gives up its combination without sending and goes on.
BatchSend_Continue(j) ==
  /\ threads[j].kind = "batch" /\ threads[j].pc = "current"
  /\ threads' = [threads EXCEPT ![j].pc = "pause"]
  /\ UNCHANGED <<pc, query, xml_request, template, patch, response, result, jobs, disk, script>>

\* A loop that parses the template once and patches the same tree for every
\* combination.
BatchSend_Reuse(j) ==
  /\ threads[j].kind = "batch" /\ threads[j].pc = "current"
  /\ template # <<>>
  /\ LET t == threads[j] total == Len(t.combinations) IN
     /\ jobs' = [jobs EXCEPT ![j].current = Current(t.i, total, t.filename)]
     /\ threads' = [threads EXCEPT
           ![j].request = BatchRequest(IF t.request = <<>> THEN template[1] ELSE t.request,
                                       t.combinations[t.i + 1], t.data.age_granularity),
           ![j].log = Append(@, [event |-> "send", i |-> t.i,
                                 c |-> t.combinations[t.i + 1]]),
           ![j].pc = "in_flight"]
  /\ UNCHANGED <<pc, query, xml_request, template, patch, response, result, disk, script>>

\* Lines 449-526: the label, the template is parsed and patched, the request
\* is posted.  A template that cannot be parsed raises in the driving loop.
BatchSend(j) ==
  /\ threads[j].kind = "batch" /\ threads[j].pc = "current"
  /\ LET t == threads[j] total == Len(t.combinations) IN
     IF template = <<>>
     THEN /\ jobs' = [jobs EXCEPT ![j].current = Current(t.i, total, t.filename),
                                  ![j].error = ExceptionText("FileNotFoundError")]
          /\ threads' = [threads EXCEPT ![j].pc = "error_status"]
     ELSE /\ jobs' = [jobs EXCEPT ![j].current = Current(t.i, total, t.filename)]
          /\ threads' = [threads EXCEPT
                ![j].request = BatchRequest(template[1], t.combinations[t.i + 1],
                                            t.data.age_granularity),
                ![j].log = Append(@, [event |-> "send", i |-> t.i,
                                      c |-> t.combinations[t.i + 1]]),
                ![j].pc = "in_flight"]
  /\ UNCHANGED <<pc, query, xml_request, template, patch, response, result, disk, script>>

\* A try block whose failure branches go on to the next combination at once.
BatchReceive_SkipPause(j, exchange, saved) ==
  /\ threads[j].kind = "batch" /\ threads[j].pc = "in_flight"
  /\ LET t == threads[j]
         res == SendRequest(t.request, exchange)
         out == RecordOutcome(t, j, res, saved)
         failed == Outcome(t, res, saved) # "success"
     IN /\ threads' = [threads EXCEPT
              ![j] = [out.t EXCEPT
                        !.log = Append(@, ReturnEvent(t, res, saved)),
                        !.i = IF failed THEN @ + 1 ELSE @,
                        !.pc = IF failed THEN "loop" ELSE "pause"]]
        /\ disk' = disk \o out.written
  /\ UNCHANGED <<pc, query, xml_request, template, patch, response, result, jobs, script>>

\* Lines 526-554: the call returns or raises, and the outcome is recorded.
BatchReceive(j, exchange, saved) ==
  /\ threads[j].kind = "batch" /\ threads[j].pc = "in_flight"
  /\ LET t == threads[j]
         res == SendRequest(t.request, exchange)
         out == RecordOutcome(t, j, res, saved)
     IN /\ threads' = [threads EXCEPT
              ![j] = [out.t EXCEPT
                        !.log = Append(@, ReturnEvent(t, res, saved)),
                        !.pc = "pause"]]
        /\ disk' = disk \o out.written
  /\ UNCHANGED <<pc, query, xml_request, template, patch, response, result, jobs, script>>

\* Line 556: time.sleep(2) returns.
BatchPause(j) ==
  /\ threads[j].kind = "batch" /\ threads[j].pc = "pause"
  /\ threads' = [threads EXCEPT ![j].i = @ + 1,
                                ![j].log = Append(@, [event |-> "sleep", i |-> threads[j].i]),
                                ![j].pc = "loop"]
  /\ UNCHANGED <<pc, query, xml_request, template, patch, response, result, jobs, disk, script>>

\* An end of the loop that publishes the status before the payload.
BatchFinish_StatusFirst(j, written) ==
  /\ threads[j].kind = "batch" /\ threads[j].pc = "loop"
  /\ threads[j].i = Len(threads[j].combinations)
  /\ written
  /\ jobs' = [jobs EXCEPT ![j].status = "complete"]
  /\ threads' = [threads EXCEPT ![j].pc = "complete"]
  /\ UNCHANGED <<pc, query, xml_request, template, patch, response, result, disk, script>>

\* Lines 558-573: the combined file and the job's result, or the job's files.
\* written: whether the combined file could be written.
BatchFinish(j, written) ==
  /\ threads[j].kind = "batch" /\ threads[j].pc = "loop"
  /\ LET t == threads[j] IN
     /\ t.i = Len(t.combinations)
     /\ IF t.data.combine_files /\ t.combined_data # <<>>
        THEN IF written
             THEN /\ disk' = Append(disk, FileWrite("deaths_combined.csv", j,
                                                     t.combined_headers[1],
                                                     t.combined_data))
                  /\ jobs' = [jobs EXCEPT ![j].result =
                               <<[rows |-> Len(t.combined_data),
                                 headers |-> t.combined_headers[1],
                                 preview |-> SubSeq(t.combined_data, 1,
                                                    IF Len(t.combined_data) < 10
                                                    THEN Len(t.combined_data) ELSE 10),
                                 filename |-> "deaths_combined.csv"]>>]
                  /\ threads' = [threads EXCEPT ![j].pc = "complete"]
             ELSE /\ jobs' = [jobs EXCEPT ![j].error = ExceptionText("OSError")]
                  /\ threads' = [threads EXCEPT ![j].pc = "error_status"]
                  /\ UNCHANGED disk
        ELSE /\ written
             /\ jobs' = [jobs EXCEPT ![j].files = t.files]
             /\ threads' = [threads EXCEPT ![j].pc = "complete"]
             /\ UNCHANGED disk
  /\ UNCHANGED <<pc, query, xml_request, template, patch, response, result, script>>

\* Line 575: jobs[job_id]["status"] = "complete".
BatchComplete(j) ==
  /\ threads[j].kind = "batch" /\ threads[j].pc = "complete"
  /\ jobs' = [jobs EXCEPT ![j].status = "complete"]
  /\ threads' = [threads EXCEPT ![j].pc = "progress"]
  /\ UNCHANGED <<pc, query, xml_request, template, patch, response, result, disk, script>>

\* Line 576: jobs[job_id]["progress"] = 100.
BatchDone(j) ==
  /\ threads[j].kind = "batch" /\ threads[j].pc = "progress"
  /\ jobs' = [jobs EXCEPT ![j].progress = 100]
  /\ threads' = [threads EXCEPT ![j].pc = "done"]
  /\ UNCHANGED <<pc, query, xml_request, template, patch, response, result, disk, script>>

BatchStep(j) ==
  \/ BatchStart(j)
  \/ BatchErrorStatus(j)
  \/ BatchProgress(j)
  \/ BatchSend(j)
  \/ \E exchange \in BatchExchanges, saved \in BOOLEAN : BatchReceive(j, exchange, saved)
  \/ BatchPause(j)
  \/ \E written \in BOOLEAN : BatchFinish(j, written)
  \/ BatchComplete(j)
  \/ BatchDone(j)

\* One batch job.
NextBatch ==
  \/ \E data \in BatchData : RunBatch("j1", data)
  \/ RemoveTemplate
  \/ BatchStep("j1")

SpecBatch == InitJobs /\ [][NextBatch]_vars

\* The worker thread keeps running: every call it makes (the post, the sleep,
\* the file writes) returns.
SpecBatchLive == InitJobs /\ [][NextBatch]_vars /\ WF_vars(BatchStep("j1"))

\* The requests job j has sent so far, as the log entries of its sends.
Sends(j) == SelectSeq(threads[j].log, LAMBDA e : e.event = "send")

\* Job j has computed its combinations.
Driving(j) == threads[j].kind = "batch" /\ threads[j].pc \notin {"start", "error_status", "done"}

(***************************************************************************)
(* C14. A batch attempts the product genders x races x causes x ages, each *)
(* combination once, in nested left-to-right order (the last list varying  *)
(* fastest): total is the product of the list lengths, the k-th request    *)
(* sent is that of the k-th combination, and a job that completes has sent *)
(* all of them.                                                            *)
(***************************************************************************)
C14_ProductOrder ==
  \A j \in JobIds :
    (threads[j].kind = "batch" /\ threads[j].combinations # <<>>) =>
      LET t == threads[j]
          d == t.data
          ages == IF d.age_cycle
                  THEN [k \in 1..MaxAges |-> AgeGroupsDict(d.age_granularity)[k][1]]
                  ELSE <<None>>
          G == Len(d.genders)
          R == Len(d.races)
          C == Len(d.causes)
          A == Len(ages)
      IN /\ Len(t.combinations) = G * R * C * A
         /\ \A n \in 0..(Len(t.combinations) - 1) :
               /\ t.combinations[n + 1].gender = d.genders[(n \div (R * C * A)) + 1]
               /\ t.combinations[n + 1].race = d.races[((n \div (C * A)) % R) + 1]
               /\ t.combinations[n + 1].cause = d.causes[((n \div A) % C) + 1]
               /\ t.combinations[n + 1].age = ages[(n % A) + 1]
         /\ Len(Sends(j)) <= Len(t.combinations)
         /\ \A k \in 1..Len(Sends(j)) :
               /\ Sends(j)[k].i = k - 1
               /\ Sends(j)[k].c = t.combinations[k]
         /\ jobs[j].status = "complete" => Len(Sends(j)) = Len(t.combinations)

\* A batch over two genders and two causes completed after four requests.
C14_Witness ==
  /\ jobs["j1"].status = "complete"
  /\ threads["j1"].data.genders = <<"M", "F">>
  /\ threads["j1"].data.causes = <<"", "covid19">>
  /\ Len(Sends("j1")) = 4
  /\ Sends("j1")[2].c.gender = "M" /\ Sends("j1")[2].c.cause = "covid19"
  /\ Sends("j1")[3].c.gender = "F" /\ Sends("j1")[3].c.cause = ""

\* The combinations of job j whose try block has ended, as log entries.
Returns(j) == SelectSeq(threads[j].log, LAMBDA e : e.event = "return")

(***************************************************************************)
(* C15. In file mode and in merge mode, a completed batch has attempted    *)
(* every combination and its job record holds one failure record (with the *)
(* error) for each combination that failed; in file mode it holds one      *)
(* record per combination, in order.                                       *)
(***************************************************************************)
C15_IsFailure(f) == "error" \in DOMAIN f

C15_OutcomesRecorded ==
  \A j \in JobIds :
    (threads[j].kind = "batch" /\ jobs[j].status = "complete") =>
      LET t == threads[j]
          failed == SelectSeq(Returns(j), LAMBDA e : e.outcome # "success")
          failures == SelectSeq(jobs[j].files, C15_IsFailure)
      IN /\ Len(Returns(j)) = Len(t.combinations)
         /\ Len(failures) = Len(failed)
         /\ \A k \in 1..Len(failures) : failures[k].error \notin {None, ""}
         /\ ~t.data.combine_files =>
              /\ Len(jobs[j].files) = Len(Returns(j))
              /\ \A k \in 1..Len(Returns(j)) :
                    C15_IsFailure(jobs[j].files[k]) <=> Returns(j)[k].outcome # "success"

(***************************************************************************)
(* C16. When every call of the worker returns, a batch job that is running *)
(* eventually is not; and a job whose status is complete has attempted     *)
(* every combination of its product, however many of them failed.          *)
(***************************************************************************)
C16_Terminates ==
  /\ [](\A j \in JobIds :
          (threads[j].kind = "batch" /\ jobs[j].status = "complete") =>
             Len(Returns(j)) = Len(threads[j].combinations))
  /\ (jobs["j1"].status = "running") ~> (jobs["j1"].status \in {"complete", "error"})

\* A batch of four combinations completed although three of them failed.
C16_Witness ==
  /\ jobs["j1"].status = "complete"
  /\ Len(threads["j1"].combinations) = 4
  /\ Len(Returns("j1")) = 4
  /\ Len(SelectSeq(Returns("j1"), LAMBDA e : e.outcome # "success")) = 3

(***************************************************************************)
(* C17. Within one batch job at most one request is in flight, and between *)
(* the sends of two consecutive combinations the worker has slept, however *)
(* the earlier combination ended: the job's events are send, return,       *)
(* sleep, send, return, sleep, ...                                         *)
(***************************************************************************)
C17_InFlight(j) ==
  Len(Sends(j)) - Len(Returns(j))

C17_OneAtATime ==
  \A j \in JobIds :
    threads[j].kind = "batch" =>
      LET log == threads[j].log IN
      /\ C17_InFlight(j) \in {0, 1}
      /\ \A n \in 1..Len(log) : log[n].event = <<"send", "return", "sleep">>[((n - 1) % 3) + 1]
      /\ \A n \in 1..Len(log), m \in 1..Len(log) :
            (n < m /\ log[n].event = "send" /\ log[m].event = "send") =>
               \E k \in (n + 1)..(m - 1) : log[k].event = "sleep"

\* A combination ended with an exception and the next one has been sent.
C17_Witness ==
  /\ threads["j1"].kind = "batch"
  /\ Len(threads["j1"].log) = 4
  /\ threads["j1"].log[2].outcome = "exception"
  /\ threads["j1"].log[4].event = "send"
  /\ threads["j1"].pc = "in_flight"

(***************************************************************************)
(* C18. In merge mode the combined header is fixed by the first successful *)
(* combination: Gender, Race, Cause_of_Death, then Age_Filter exactly when *)
(* age is cycled, then that combination's headers; later combinations do   *)
(* not change it.  The combined rows are, in product order of the          *)
(* combinations, each decoded row after the labels of its combination.     *)
(***************************************************************************)
\* The labels of combination c: gender, race, cause, and age when cycled.
C18_Labels(c, d) ==
  <<Lookup(GENDER_READABLE, c.gender, c.gender),
    Lookup(RACE_READABLE, c.race, c.race),
    Lookup(CAUSE_READABLE, c.cause, c.cause)>>
  \o (IF ~d.age_cycle THEN <<>>
      ELSE IF c.age = None THEN <<"All">>
      ELSE <<Lookup(AgeGroupsDict(d.age_granularity), c.age, "All")>>)

\* The rows the successful combinations e[1], e[2], ... contribute, in order.
RECURSIVE C18_Rows(_, _, _)
C18_Rows(e, combinations, d) ==
  IF e = <<>> THEN <<>>
  ELSE [k \in 1..Len(Head(e).data) |->
          C18_Labels(combinations[Head(e).i + 1], d) \o Head(e).data[k]]
       \o C18_Rows(Tail(e), combinations, d)

C18_CombinedTable ==
  \A j \in JobIds :
    (threads[j].kind = "batch" /\ threads[j].data.combine_files) =>
      LET t == threads[j]
          succeeded == SelectSeq(Returns(j), LAMBDA e : e.outcome = "success")
          names == IF t.data.age_cycle
                   THEN <<"Gender", "Race", "Cause_of_Death", "Age_Filter">>
                   ELSE <<"Gender", "Race", "Cause_of_Death">>
      IN /\ succeeded = <<>> => t.combined_headers = <<>>
         /\ succeeded # <<>> => t.combined_headers = <<names \o succeeded[1].headers>>
         /\ t.combined_data = C18_Rows(succeeded, t.combinations, t.data)
         /\ jobs[j].result # <<>> =>
               /\ jobs[j].result[1].headers = names \o succeeded[1].headers
               /\ jobs[j].result[1].rows = Len(t.combined_data)

\* With age cycled, a combination without rows fixed the header and a later
\* one, with other headers, contributed a row.
C18_Witness ==
  /\ threads["j1"].kind = "batch"
  /\ threads["j1"].data.combine_files
  /\ threads["j1"].data.age_cycle
  /\ jobs["j1"].status = "complete"
  /\ jobs["j1"].result # <<>>
  /\ jobs["j1"].result[1].headers = <<"Gender", "Race", "Cause_of_Death", "Age_Filter", "Deaths">>
  /\ Len(threads["j1"].combined_data) = 1
  /\ Len(threads["j1"].combined_data[1]) = 6

(***************************************************************************)
(* Single queries, app.execute_query, run by a worker thread per job, and  *)
(* the application serving several jobs at once.                           *)
(***************************************************************************)
PRESETS ==
  <<<<"all_causes_by_age_year", [years |-> <<2020, 2021, 2022, 2023, 2024, 2025>>,
                                 group_by |-> <<"age", "year">>, cause |-> None]>>,
    <<"covid_by_year", [years |-> <<2020, 2021, 2022, 2023, 2024, 2025>>,
                        group_by |-> <<"year">>, cause |-> "covid19"]>>>>

NoPreset == [years |-> <<>>, group_by |-> <<>>, cause |-> None]

\* The bodies of POST /api/query the model submits.
QueryData ==
  [query_type : {"preset"}, preset : {"covid_by_year", "all_causes_by_age_year", "unknown"},
   time_granularity : {"year", "month", "week"}, years : {<<2024>>},
   group_by : {<<"year">>}, cause : {""}, age_group : {"*All*"}]
  \cup
  [query_type : {"custom"}, preset : {""}, time_granularity : {"year", "week"},
   years : {<<2024>>}, group_by : {<<"year">>}, cause : {"", "covid19"},
   age_group : {"*All*", "1-4"}]

\* jobs[job_id] = {"status": "running", "progress": 0, "result": None, "error": None}
NewQueryJob == [status |-> "running", progress |-> 0, result |-> <<>>, error |-> None]

NewQueryThread(data) == [kind |-> "query", pc |-> "start", data |-> data, request |-> <<>>]

\* The request execute_query compiles for a body, the template being root.
QueryRequest(data, root) ==
  LET preset == Lookup(PRESETS, data.preset, NoPreset)
      time == {"year", "month", "week"}
      others == SelectSeq(preset.group_by, LAMBDA g : g \notin time)
  IN IF data.time_granularity = "week" /\ root # <<>>
     THEN ExecuteQueryTemplate(root[1],
            IF data.query_type = "preset" THEN preset.cause
            ELSE IF Truthy(data.cause) THEN data.cause ELSE None)
     ELSE IF data.query_type = "preset"
     THEN BuildQueryXml([NoQuery EXCEPT
            !.years = preset.years,
            !.group_by = (IF data.time_granularity = "month" THEN <<"year", "month">>
                          ELSE <<"year">>) \o others,
            !.cause_of_death = preset.cause])
     ELSE BuildQueryXml([NoQuery EXCEPT
            !.years = data.years,
            !.group_by = data.group_by,
            !.cause_of_death = IF Truthy(data.cause) THEN data.cause ELSE None,
            !.age_groups = IF Truthy(data.age_group) /\ data.age_group # "*All*"
                           THEN <<data.age_group>> ELSE <<>>])

\* f"cdc_wonder_{job_id}.csv"
QueryFileName(j) == "cdc_wonder_" \o j \o ".csv"

\* POST /api/query: run_query registers the job and starts its thread.
RunQuery(j, data) ==
  /\ jobs[j] = NoJob
  /\ jobs' = [jobs EXCEPT ![j] = NewQueryJob]
  /\ threads' = [threads EXCEPT ![j] = NewQueryThread(data)]
  /\ UNCHANGED <<pc, query, xml_request, template, patch, response, result, disk, script>>

\* Lines 151-245, up to the post: the request is compiled and sent, or the
\* preset is unknown.
QuerySend(j) ==
  /\ threads[j].kind = "query" /\ threads[j].pc = "start"
  /\ LET d == threads[j].data IN
     IF /\ ~(d.time_granularity = "week" /\ template # <<>>)
        /\ d.query_type = "preset"
        /\ KeyIndex(PRESETS, d.preset) = 0
     THEN /\ jobs' = [jobs EXCEPT ![j].error = "Unknown preset: " \o d.preset]
          /\ threads' = [threads EXCEPT ![j].pc = "error_status"]
     ELSE /\ threads' = [threads EXCEPT ![j].request = QueryRequest(d, template),
                                       ![j].pc = "in_flight"]
          /\ UNCHANGED jobs
  /\ UNCHANGED <<pc, query, xml_request, template, patch, response, result, disk, script>>

\* Lines 203-263: the call returns or raises; an error is stored, or the file
\* is saved and the result stored.
QueryReceive(j, exchange, saved) ==
  /\ threads[j].kind = "query" /\ threads[j].pc = "in_flight"
  /\ LET res == SendRequest(threads[j].request, exchange) IN
     IF res.status = "raised"
     THEN /\ jobs' = [jobs EXCEPT ![j].error = ExceptionText(res.exception)]
          /\ threads' = [threads EXCEPT ![j].pc = "error_status"]
          /\ UNCHANGED disk
     ELSE IF Truthy(res.error)
     THEN /\ jobs' = [jobs EXCEPT ![j].error = res.error]
          /\ threads' = [threads EXCEPT ![j].pc = "error_status"]
          /\ UNCHANGED disk
     ELSE IF ~saved
     THEN /\ jobs' = [jobs EXCEPT ![j].error = ExceptionText("OSError")]
          /\ threads' = [threads EXCEPT ![j].pc = "error_status"]
          /\ UNCHANGED disk
     ELSE /\ disk' = Append(disk, FileWrite(QueryFileName(j), j, res.headers, res.data))
          /\ jobs' = [jobs EXCEPT ![j].result =
                        <<[rows |-> Len(res.data), headers |-> res.headers,
                           preview |-> SubSeq(res.data, 1, IF Len(res.data) < 10
                                                           THEN Len(res.data) ELSE 10),
                           filename |-> QueryFileName(j),
                           caveats |-> SubSeq(res.caveats, 1, IF Len(res.caveats) < 3
                                                              THEN Len(res.caveats) ELSE 3)]>>]
          /\ threads' = [threads EXCEPT ![j].pc = "complete"]
  /\ UNCHANGED <<pc, query, xml_request, template, patch, response, result, script>>

\* Lines 209, 249 and 268: jobs[job_id]["status"] = "error".
QueryErrorStatus(j) ==
  /\ threads[j].kind = "query" /\ threads[j].pc = "error_status"
  /\ jobs' = [jobs EXCEPT ![j].status = "error"]
  /\ threads' = [threads EXCEPT ![j].pc = "done"]
  /\ UNCHANGED <<pc, query, xml_request, template, patch, response, result, disk, script>>

\* Line 264: jobs[job_id]["status"] = "complete".
QueryComplete(j) ==
  /\ threads[j].kind = "query" /\ threads[j].pc = "complete"
  /\ jobs' = [jobs EXCEPT ![j].status = "complete"]
  /\ threads' = [threads EXCEPT ![j].pc = "done"]
  /\ UNCHANGED <<pc, query, xml_request, template, patch, response, result, disk, script>>

QueryStep(j) ==
  \/ QuerySend(j)
  \/ \E exchange \in BatchExchanges, saved \in BOOLEAN : QueryReceive(j, exchange, saved)
  \/ QueryErrorStatus(j)
  \/ QueryComplete(j)

\* The bodies the application is given while it serves two jobs: batches of
\* one combination, and single queries.
ConcurrentBatchData ==
  {d \in BatchData : Len(d.genders) * Len(d.causes) = 1 /\ ~d.age_cycle
                     /\ d.age_granularity = "decennial"}

ConcurrentQueryData ==
  {d \in QueryData :
     \/ d.query_type = "custom" /\ d.cause = "covid19" /\ d.age_group = "1-4"
     \/ d.query_type = "preset" /\ d.preset \in {"covid_by_year", "unknown"}
        /\ d.time_granularity \in {"month", "week"}}

\* Two jobs, submitted at any time, each a batch or a single query.
NextJobs ==
  \E j \in JobIds :
    \/ \E data \in ConcurrentBatchData : RunBatch(j, data)
    \/ \E data \in ConcurrentQueryData : RunQuery(j, data)
    \/ BatchStep(j)
    \/ QueryStep(j)

SpecJobs == InitJobs /\ [][NextJobs]_vars

(***************************************************************************)
(* C19. Output files are named uniquely per job: no file written by a job  *)
(* has the name of a file written by another job that was running at the   *)
(* same time.                                                              *)
(***************************************************************************)
C19_UniqueNames ==
  \A a \in 1..Len(disk), b \in 1..Len(disk) :
    (/\ a < b
     /\ disk[a].job # disk[b].job
     /\ disk[b].job \in disk[a].during) =>
       disk[a].name # disk[b].name

(***************************************************************************)
(* C20. A batch whose template is missing stores the error and ends in     *)
(* status error without sending a request; a batch whose driving loop      *)
(* raises outside the try block of a combination (the template cannot be   *)
(* loaded) stores the error, ends in status error, and attempts no later   *)
(* combination.                                                            *)
(***************************************************************************)
C20_Step(j) ==
  (threads[j].kind = "batch" /\ threads'[j] # threads[j]) =>
     /\ (threads[j].pc \in {"start", "current"} /\ template = <<>>) =>
           /\ threads'[j].pc = "error_status"
           /\ jobs'[j].error \notin {None, ""}
           /\ threads'[j].log = threads[j].log
     /\ threads[j].pc = "error_status" =>
           /\ jobs'[j].status = "error"
           /\ jobs'[j].error = jobs[j].error
           /\ threads'[j].pc = "done"
           /\ threads'[j].log = threads[j].log

C20_BatchFatal ==
  /\ [][\A j \in JobIds : C20_Step(j)]_vars
  /\ [][\A j \in JobIds : threads[j].pc = "done" =>
          (threads'[j] = threads[j] /\ jobs'[j] = jobs[j])]_vars
  /\ [](\A j \in JobIds :
          (threads[j].kind = "batch" /\ threads[j].pc = "done" /\ jobs[j].error # None) =>
             jobs[j].status = "error")
  /\ (threads["j1"].pc = "error_status") ~> (jobs["j1"].status = "error")

\* The template disappeared after the first of four combinations: the job is
\* in status error and has sent one request.
C20_Witness ==
  /\ threads["j1"].pc = "done"
  /\ jobs["j1"].status = "error"
  /\ jobs["j1"].error = "FileNotFoundError"
  /\ Len(threads["j1"].combinations) = 4
  /\ Len(Sends("j1")) = 1

(***************************************************************************)
(* The age-granularity switch of execute_batch_queries on its own: the     *)
(* loop of app.py:456-463 applied to a freshly parsed template.            *)
(***************************************************************************)
MaxParams == 2

\* Parameters a template may hold around the age codes: named or not, with no
\* value, one value or two.
SwapParams ==
  {Param("B_1", "V_D176.V51"), Param("B_2", "V_D176.V51"), Param("B_2", "V_D176.V5"),
   Param("V_D176.V51", "*All*"),
   Nameless("V_D176.V51"), Valueless("B_3"),
   [name |-> <<"B_4">>, values |-> <<"*All*", "V_D176.V51">>]}

SwapTemplates(n) == SeqsUpTo(SwapParams, n)

\* data.get("age_granularity", "decennial"): any string of the request body.
Granularities == {"decennial", "quinquennial", "yearly"}

InitSwap ==
  /\ pc = "start"
  /\ NoJobs
  /\ template \in SwapTemplates(MaxParams)
  /\ patch \in [gender : {"*All*"}, race : {"*All*"}, cause : {""}, age : {None},
                age_granularity : Granularities]
  /\ query = NoQuery
  /\ xml_request = <<>>
  /\ response = NoDoc
  /\ result = None

DoSwapAgeParam ==
  /\ pc = "start"
  /\ xml_request' = SwapAgeParam(template, patch.age_granularity)
  /\ pc' = "swap_age_param"
  /\ UNCHANGED <<query, template, patch, response, result, jobs, threads, disk, script>>

NextSwap == DoSwapAgeParam

SpecSwap == InitSwap /\ [][NextSwap]_vars

\* The named parameters of root whose value is text.
C21_Carriers(root, text) ==
  {i \in 1..Len(root) :
     root[i].name # <<>> /\ root[i].values # <<>> /\ root[i].values[1] = text}

\* The parameters the step changed.
C21_Rewritten == {i \in 1..Len(template) : xml_request[i] # template[i]}

(***************************************************************************)
(* C21 as stated: the switch rewrites exactly one parameter, one whose     *)
(* value is the old granularity's code, to the new code, and changes       *)
(* nothing when no parameter carries the old code.                         *)
(***************************************************************************)
C21_AsStated ==
  pc = "swap_age_param" =>
    LET old == OldAgeParam(patch.age_granularity)
        new == AgeParam(patch.age_granularity)
        carriers == C21_Carriers(template, old) IN
    /\ Len(xml_request) = Len(template)
    /\ carriers = {} => xml_request = template
    /\ (carriers # {} /\ old # new) =>
          /\ Cardinality(C21_Rewritten) = 1
          /\ \A i \in C21_Rewritten :
                /\ i \in carriers
                /\ xml_request[i] = [template[i] EXCEPT !.values[1] = new]

(***************************************************************************)
(* C21, amended: the switch rewrites the first value of every parameter    *)
(* that has a name and whose first value is the old granularity's code to  *)
(* the new code; names, later values, and every other parameter stay as    *)
(* the template holds them, and nothing changes when no named parameter    *)
(* carries the old code.                                                   *)
(***************************************************************************)
C21_AgeSwitch ==
  pc = "swap_age_param" =>
    LET old == OldAgeParam(patch.age_granularity)
        new == AgeParam(patch.age_granularity) IN
    /\ Len(xml_request) = Len(template)
    /\ \A i \in 1..Len(template) :
          /\ xml_request[i].name = template[i].name
          /\ Len(xml_request[i].values) = Len(template[i].values)
          /\ \A k \in 2..Len(template[i].values) :
                xml_request[i].values[k] = template[i].values[k]
          /\ template[i].values # <<>> =>
                xml_request[i].values[1] =
                  IF template[i].name # <<>> /\ template[i].values[1] = old THEN new
                  ELSE template[i].values[1]

\* A decennial request on a template with two named parameters that carry the
\* quinquennial code: both now carry the decennial code.
C21_Witness ==
  /\ pc = "swap_age_param"
  /\ patch.age_granularity = "decennial"
  /\ template = <<Param("B_1", "V_D176.V51"), Param("B_2", "V_D176.V51")>>
  /\ xml_request = <<Param("B_1", "V_D176.V5"), Param("B_2", "V_D176.V5")>>

(***************************************************************************)
(* Batches over templates that hold filter values of their own, with       *)
(* combinations that set a filter followed by combinations that leave it   *)
(* open.                                                                   *)
(***************************************************************************)
\* A saved request that restricts gender, race and cause itself.
FilteredTemplate ==
  <<Param("B_1", "D176.V1-level1"), Param("B_2", "V_D176.V5"),
    Param("F_D176.V2", "C00-C97"), Param("V_D176.V5", "*All*"),
    Param("V_D176.V51", "*All*"), Param("V_D176.V7", "F"),
    Param("V_D176.V42", "2054-5")>>

PatchData ==
  {d \in [genders : {<<"*All*">>, <<"M", "*All*">>},
          races : {<<"*All*">>, <<"2106-3">>},
          causes : {<<"">>, <<"covid19", "">>},
          age_granularity : {"decennial", "quinquennial"},
          age_cycle : BOOLEAN,
          combine_files : BOOLEAN] :
     Len(d.genders) * Len(d.causes) * (IF d.age_cycle THEN MaxAges ELSE 1) <= MaxCombos}

InitPatch ==
  /\ pc = "serving"
  /\ NoJobs
  /\ template \in {<<MasterTemplate>>, <<FilteredTemplate>>}
  /\ query = NoQuery
  /\ xml_request = <<>>
  /\ patch = None
  /\ response = NoDoc
  /\ result = None

NextPatch ==
  \/ \E data \in PatchData : RunBatch("j1", data)
  \/ BatchStep("j1")

SpecPatch == InitPatch /\ [][NextPatch]_vars

\* Job j holds the request of its current combination.
C22_Holding(j) == threads[j].kind = "batch" /\ threads[j].pc \in {"in_flight", "pause"}

\* The request carries text under name n although the template does not.
C22_Written(request, n, text) == Carries(request, n, text) /\ ~Carries(template[1], n, text)

(***************************************************************************)
(* C22. Every combination's request is compiled from a fresh copy of the   *)
(* template: a filter value written for an earlier combination is not in   *)
(* the request of a later one unless the later combination sets that value *)
(* itself, and no step of a batch changes the stored template.             *)
(***************************************************************************)
C22_FreshCopy ==
  /\ [](\A j \in JobIds : C22_Holding(j) =>
          LET t == threads[j]
              c == t.combinations[t.i + 1]
              g == t.data.age_granularity IN
          \A k \in 1..Len(Sends(j)) :
            LET e == Sends(j)[k].c IN
            Sends(j)[k].i < t.i =>
              /\ (e.gender # "*All*" /\ C22_Written(t.request, "V_D176.V7", e.gender)) =>
                    c.gender = e.gender
              /\ (e.race # "*All*" /\ C22_Written(t.request, "V_D176.V42", e.race)) =>
                    c.race = e.race
              /\ (Truthy(e.cause)
                  /\ C22_Written(t.request, "F_D176.V2", CAUSES_OF_DEATH[e.cause])) =>
                    c.cause = e.cause
              /\ (Truthy(e.age) /\ C22_Written(t.request, AgeParam(g), e.age)) =>
                    c.age = e.age)
  /\ [][threads' # threads => template' = template]_vars

\* The second request of a batch over genders M, *All*: the first carried M,
\* this one carries the template's F.
C22_Witness ==
  /\ threads["j1"].pc = "in_flight"
  /\ threads["j1"].i = 1
  /\ template = <<FilteredTemplate>>
  /\ Sends("j1")[1].c.gender = "M"
  /\ threads["j1"].combinations[2].gender = "*All*"
  /\ ValuesOf(threads["j1"].request, "V_D176.V7") = <<"F">>

\* The parameters named n are in request what they are in the template.
C29_Kept(request, n) ==
  /\ Len(request) >= Len(template[1])
  /\ \A i \in 1..Len(template[1]) :
       HasName(template[1][i], n) => request[i] = template[1][i]
  /\ \A i \in 1..Len(request) : HasName(request[i], n) => i <= Len(template[1])

\* The rows the current combination of job j has added to the combined table.
C29_Added(j) ==
  LET t == threads[j]
      e == t.log[Len(t.log)]
      n == Len(t.combined_data) IN
  IF t.pc = "pause" /\ t.data.combine_files /\ e.event = "return" /\ e.outcome = "success"
  THEN {t.combined_data[k] : k \in (n - Len(e.data) + 1)..n}
  ELSE {}

(***************************************************************************)
(* C29. For a combination whose gender (race) is "*All*" or whose cause is *)
(* empty, the request holds the gender (race, cause) parameter exactly as  *)
(* the template holds it, and the rows of that combination in the combined *)
(* table are labelled All (All Causes for the cause).                      *)
(***************************************************************************)
C29_OpenFiltersKept ==
  \A j \in JobIds : C22_Holding(j) =>
    LET t == threads[j]
        c == t.combinations[t.i + 1] IN
    /\ c.gender = "*All*" =>
         /\ C29_Kept(t.request, "V_D176.V7")
         /\ \A row \in C29_Added(j) : row[1] = "All"
    /\ c.race = "*All*" =>
         /\ C29_Kept(t.request, "V_D176.V42")
         /\ \A row \in C29_Added(j) : row[2] = "All"
    /\ c.cause = "" =>
         /\ C29_Kept(t.request, "F_D176.V2")
         /\ \A row \in C29_Added(j) : row[3] = "All Causes"

\* A combination with every filter open on a template that restricts gender,
\* race and cause: its rows are labelled All while the request asked for the
\* template's restriction.
C29_Witness ==
  /\ template = <<FilteredTemplate>>
  /\ threads["j1"].pc = "pause"
  /\ threads["j1"].combinations[threads["j1"].i + 1] =
       [gender |-> "*All*", race |-> "*All*", cause |-> "", age |-> None]
  /\ ValuesOf(threads["j1"].request, "V_D176.V7") = <<"F">>
  /\ ValuesOf(threads["j1"].request, "V_D176.V42") = <<"2054-5">>
  /\ ValuesOf(threads["j1"].request, "F_D176.V2") = <<"C00-C97">>
  /\ C29_Added("j1") # {}
  /\ \A row \in C29_Added("j1") : SubSeq(row, 1, 3) = <<"All", "All", "All Causes">>

(***************************************************************************)
(* C23. When the first surviving row of a response omits m leading cells   *)
(* (1 <= m <= the number of grouping columns), the decoder returns, and    *)
(* the first decoded row is m empty strings followed by the values of the  *)
(* row's cells: the row is neither dropped nor a cause of failure.         *)
(***************************************************************************)
\* The number of cells the first surviving row omits.
C23_Omitted == Len(Headers(response)) - Len(Unflagged[1])

C23_FirstRowDefault ==
  (pc = "decoded" /\ Unflagged # <<>> /\ C23_Omitted \in 1..EchoedG) =>
     /\ result.status = "returned"
     /\ result.error = None
     /\ Len(result.data) = Len(Unflagged)
     /\ Len(result.data[1]) = C23_Omitted + Len(Unflagged[1])
     /\ \A i \in 1..C23_Omitted : result.data[1][i] = ""
     /\ \A i \in 1..Len(Unflagged[1]) :
          result.data[1][C23_Omitted + i] = CellValue(Unflagged[1][i])

\* Two grouping columns and one measure; a total row, then a row with the
\* measure cell alone: it is decoded as "", "", value.
C23_Witness ==
  /\ pc = "decoded"
  /\ EchoedG = 2
  /\ Len(RawRows) = 2
  /\ Flagged(RawRows[1])
  /\ RawRows[2] = <<ValueCell(2)>>
  /\ result.status = "returned"
  /\ result.data = <<<<"", "", Token(2)>>>>

(***************************************************************************)
(* Responses that differ in their blocks of selected measures: no, one or  *)
(* two measure-selections-all blocks, a generic measure-selections block   *)
(* or none, measures in either order, and a selected measure the response  *)
(* does not label.  Every row carries all its cells.                       *)
(***************************************************************************)
SelectionsAll ==
  {<<>>, <<<<"D176.M1">>>>, <<<<"D176.M2", "D176.M1">>>>, <<<<"D176.M2">>, <<"D176.M1">>>>,
   <<<<"D176.M1", "D176.M9">>>>}

Selections == {<<>>, <<<<"D176.M2">>>>, <<<<"D176.M1", "D176.M2">>>>}

\* The block the service lists the returned measures in.
SelectedBlock(sa, sel) ==
  IF sa # <<>> THEN sa[1] ELSE IF sel # <<>> THEN sel[1] ELSE <<>>

FullRow(n) == [i \in 1..n |-> ValueCell(i)]

SelectionDocs(n) ==
  {[Document(<<G, 1>>, [k \in 1..r |-> FullRow(G + Len(SelectedBlock(sa, sel)))],
             <<>>, "page", TRUE)
      EXCEPT !.selections_all = sa, !.selections = sel] :
     G \in 0..2, sa \in SelectionsAll, sel \in Selections, r \in 0..n}

InitDecodeSel ==
  /\ pc = "start"
  /\ NoJobs
  /\ response \in SelectionDocs(MaxRows)
  /\ query = NoQuery
  /\ xml_request = <<>>
  /\ template = <<>>
  /\ patch = None
  /\ result = None

SpecDecodeSel == InitDecodeSel /\ [][NextDecode]_vars

\* The labels the documents of the model give their codes.
C24_Label ==
  [code \in {"D176.V5", "D176.V100-level1", "D176.M1", "D176.M2"} |->
     IF code = "D176.V5" THEN "Ten-Year Age Groups"
     ELSE IF code = "D176.V100-level1" THEN "Year"
     ELSE IF code = "D176.M1" THEN "Deaths" ELSE "Population"]

\* The measures the response selects: those of the measure-selections-all
\* block when there is one, else those of the measure-selections block.
C24_Selected ==
  IF response.selections_all # <<>> THEN response.selections_all[1]
  ELSE IF response.selections # <<>> THEN response.selections[1]
  ELSE <<>>

(***************************************************************************)
(* C24. The headers of a decoded response are the labels of the N echoed   *)
(* grouping columns followed by the labels of the M selected measures, in  *)
(* block order, the measures being those of the measure-selections-all     *)
(* block when there is one and of the measure-selections block otherwise;  *)
(* with no omitted cells there are N+M headers and every row has N+M       *)
(* values.                                                                 *)
(***************************************************************************)
C24_HeadersFromSelections ==
  Decoded =>
    LET N == EchoedG
        M == Len(C24_Selected) IN
    /\ Len(result.headers) = N + M
    /\ \A i \in 1..N : result.headers[i] = C24_Label[GroupCodes[i]]
    /\ \A i \in 1..M : result.headers[N + i] = C24_Label[C24_Selected[i]]
    /\ \A k \in 1..Len(result.data) : Len(result.data[k]) = N + M

(***************************************************************************)
(* C25. Progress of a batch job: while combination i (0-based) of total is *)
(* being sent the published progress is floor(100 * i / total) and the     *)
(* published label is that combination's; the published progress never     *)
(* decreases, stays in 0..100, and is 100 whenever the status is complete. *)
(***************************************************************************)
\* What a poller reads in the record of job j.
C25_Published(j) ==
  (threads[j].kind = "batch" /\ jobs[j].status # "absent") =>
     LET t == threads[j]
         total == Len(t.combinations) IN
     /\ t.pc = "in_flight" =>
          /\ jobs[j].progress * total <= 100 * t.i
          /\ 100 * t.i < (jobs[j].progress + 1) * total
          /\ jobs[j].current =
               "Query " \o Str(t.i + 1) \o "/" \o Str(total) \o ": deaths_"
               \o FileLabel(t.combinations[t.i + 1], t.data.age_granularity) \o ".csv"
     /\ jobs[j].progress \in 0..100
     /\ jobs[j].status = "complete" => jobs[j].progress = 100

C25_Progress ==
  [][\A j \in JobIds :
       /\ C25_Published(j)'
       /\ (jobs[j].status # "absent" /\ threads[j].kind = "batch") =>
             jobs'[j].progress >= jobs[j].progress]_vars

(***************************************************************************)
(* run_by_age.py: main() queries the age groups one after the other from   *)
(* the template.  script is the process: its position, the index of the    *)
(* age group, the request in flight and the log of its sends and sleeps.   *)
(* The loop runs over the first MaxAges age groups.                        *)
(***************************************************************************)
AGE_GROUPS ==
  <<<<"1", "under_1_year">>, <<"1-4", "1_4_years">>, <<"5-14", "5_14_years">>,
    <<"15-24", "15_24_years">>, <<"25-34", "25_34_years">>, <<"35-44", "35_44_years">>,
    <<"45-54", "45_54_years">>, <<"55-64", "55_64_years">>, <<"65-74", "65_74_years">>,
    <<"75-84", "75_84_years">>, <<"85+", "85_plus_years">>>>

AgeLoop == SubSeq(AGE_GROUPS, 1, IF MaxAges < Len(AGE_GROUPS) THEN MaxAges ELSE Len(AGE_GROUPS))

InitScript ==
  /\ pc = "shell"
  /\ NoJobs
  /\ template \in {<<MasterTemplate>>, <<>>}
  /\ query = NoQuery
  /\ xml_request = <<>>
  /\ patch = None
  /\ response = NoDoc
  /\ result = None

\* Lines 62-70: the template check.
Main ==
  /\ script = NoScript
  /\ script' = [pc |-> IF template = <<>> THEN "done" ELSE "loop", i |-> 0,
                request |-> <<>>, log |-> <<>>]
  /\ UNCHANGED <<pc, query, xml_request, template, patch, response, result, jobs, threads,
                 disk>>

\* The template file is removed while the script runs.
RemoveScriptTemplate ==
  /\ template # <<>>
  /\ script.pc \in {"loop", "sleep"}
  /\ template' = <<>>
  /\ UNCHANGED <<pc, query, xml_request, patch, response, result, jobs, threads, disk, script>>

\* Lines 72-80: the request of the next age group is built and posted; an
\* exception of modify_age_filter is caught by the handler of line 94.
MainSend ==
  /\ script.pc = "loop"
  /\ script.i < Len(AgeLoop)
  /\ IF template = <<>>
     THEN script' = [script EXCEPT !.pc = "sleep"]
     ELSE script' = [script EXCEPT
            !.request = ModifyAgeFilter(template[1], AgeLoop[script.i + 1][1]),
            !.log = Append(@, [event |-> "send", i |-> script.i]),
            !.pc = "in_flight"]
  /\ UNCHANGED <<pc, query, xml_request, template, patch, response, result, jobs, threads,
                 disk>>

\* Lines 80-95: the call returns or raises; an error result goes on to the
\* next age group (continue), a table is saved, an exception is printed.
\* saved: whether save_to_csv could write the file.
MainReceive(exchange, saved) ==
  /\ script.pc = "in_flight"
  /\ LET res == SendRequest(script.request, exchange) IN
     IF res.status = "raised"
     THEN /\ script' = [script EXCEPT !.pc = "sleep"]
          /\ UNCHANGED disk
     ELSE IF Truthy(res.error)
     THEN /\ script' = [script EXCEPT !.i = @ + 1, !.pc = "loop"]
          /\ UNCHANGED disk
     ELSE /\ script' = [script EXCEPT !.pc = "sleep"]
          /\ disk' = IF saved
                     THEN Append(disk, FileWrite("deaths_" \o AgeLoop[script.i + 1][2] \o ".csv",
                                                 "main", res.headers, res.data))
                     ELSE disk
  /\ UNCHANGED <<pc, query, xml_request, template, patch, response, result, jobs, threads>>

\* Line 98: time.sleep(2) returns.
MainSleep ==
  /\ script.pc = "sleep"
  /\ script' = [script EXCEPT !.i = @ + 1,
                              !.log = Append(@, [event |-> "sleep", i |-> script.i]),
                              !.pc = "loop"]
  /\ UNCHANGED <<pc, query, xml_request, template, patch, response, result, jobs, threads,
                 disk>>

\* Lines 100-101: the loop is over.
MainDone ==
  /\ script.pc = "loop"
  /\ script.i = Len(AgeLoop)
  /\ script' = [script EXCEPT !.pc = "done"]
  /\ UNCHANGED <<pc, query, xml_request, template, patch, response, result, jobs, threads,
                 disk>>

NextScript ==
  \/ Main
  \/ RemoveScriptTemplate
  \/ MainSend
  \/ \E exchange \in BatchExchanges, saved \in BOOLEAN : MainReceive(exchange, saved)
  \/ MainSleep
  \/ MainDone

SpecScript == InitScript /\ [][NextScript]_vars

(***************************************************************************)
(* C26. In run_by_age.main, a rate-limit pause lies between every two      *)
(* consecutive requests, whatever the outcome of the earlier one: the log  *)
(* of the script never has two sends without a sleep between them.         *)
(***************************************************************************)
C26_PauseBetweenRequests ==
  script.pc # "none" =>
    \A a, b \in 1..Len(script.log) :
      (a < b /\ script.log[a].event = "send" /\ script.log[b].event = "send") =>
         \E c \in (a + 1)..(b - 1) : script.log[c].event = "sleep"

(***************************************************************************)
(* POST /api/run_by_age: execute_age_queries runs one query per age group  *)
(* from the template, in a job thread of kind "age".  Its list of age      *)
(* groups is that of run_by_age.py; the loop runs over the first MaxAges.  *)
(***************************************************************************)
\* jobs[job_id] = {"status": "running", "progress": 0, "result": None,
\*                 "error": None, "files": []}
NewAgeJob ==
  [status |-> "running", progress |-> 0, result |-> <<>>, error |-> None,
   files |-> <<>>, current |-> None]

NewAgeThread ==
  [kind |-> "age", pc |-> "start", i |-> 0, request |-> <<>>, files |-> <<>>, log |-> <<>>]

RunByAge(j) ==
  /\ jobs[j] = NoJob
  /\ jobs' = [jobs EXCEPT ![j] = NewAgeJob]
  /\ threads' = [threads EXCEPT ![j] = NewAgeThread]
  /\ UNCHANGED <<pc, query, xml_request, template, patch, response, result, disk, script>>

\* Lines 599-622: the template check.
AgeStart(j) ==
  /\ threads[j].kind = "age" /\ threads[j].pc = "start"
  /\ IF template = <<>>
     THEN /\ jobs' = [jobs EXCEPT ![j].error = "Template XML file not found"]
          /\ threads' = [threads EXCEPT ![j].pc = "error_status"]
     ELSE /\ threads' = [threads EXCEPT ![j].pc = "loop"]
          /\ UNCHANGED jobs
  /\ UNCHANGED <<pc, query, xml_request, template, patch, response, result, disk, script>>

\* Lines 603 and 674: jobs[job_id]["status"] = "error".
AgeErrorStatus(j) ==
  /\ threads[j].kind = "age" /\ threads[j].pc = "error_status"
  /\ jobs' = [jobs EXCEPT ![j].status = "error"]
  /\ threads' = [threads EXCEPT ![j].pc = "done"]
  /\ UNCHANGED <<pc, query, xml_request, template, patch, response, result, disk, script>>

\* Lines 625-626: the next age group and the progress.
AgeProgress(j) ==
  /\ threads[j].kind = "age" /\ threads[j].pc = "loop"
  /\ threads[j].i < Len(AgeLoop)
  /\ jobs' = [jobs EXCEPT ![j].progress = Progress(threads[j].i, Len(AgeLoop))]
  /\ threads' = [threads EXCEPT ![j].pc = "current"]
  /\ UNCHANGED <<pc, query, xml_request, template, patch, response, result, disk, script>>

\* Lines 627-659: the label, the template is parsed and patched, the request
\* is posted.
AgeSend(j) ==
  /\ threads[j].kind = "age" /\ threads[j].pc = "current"
  /\ LET t == threads[j] IN
     IF template = <<>>
     THEN /\ jobs' = [jobs EXCEPT ![j].current = AgeLoop[t.i + 1][2],
                                  ![j].error = ExceptionText("FileNotFoundError")]
          /\ threads' = [threads EXCEPT ![j].pc = "error_status"]
     ELSE /\ jobs' = [jobs EXCEPT ![j].current = AgeLoop[t.i + 1][2]]
          /\ threads' = [threads EXCEPT
                ![j].request = ModifyAgeFilter(template[1], AgeLoop[t.i + 1][1]),
                ![j].log = Append(@, [event |-> "send", i |-> t.i]),
                ![j].pc = "in_flight"]
  /\ UNCHANGED <<pc, query, xml_request, template, patch, response, result, disk, script>>

\* How the call of one age group ends.
AgeOutcome(res, saved) ==
  IF res.status = "raised" THEN "exception"
  ELSE IF Truthy(res.error) THEN "error"
  ELSE IF ~saved THEN "exception"
  ELSE "success"

\* Lines 659-664 and 672-673: the call returns or raises; a table is saved
\* and recorded, an error result is passed over, an exception reaches the
\* handler of the function.  saved: whether save_to_csv could write the file.
AgeReceive(j, exchange, saved) ==
  /\ threads[j].kind = "age" /\ threads[j].pc = "in_flight"
  /\ LET t == threads[j]
         res == SendRequest(t.request, exchange)
         outcome == AgeOutcome(res, saved)
         age_label == AgeLoop[t.i + 1][2]
         filename == "deaths_" \o age_label \o ".csv"
         logged == Append(t.log, [event |-> "return", i |-> t.i, outcome |-> outcome])
     IN IF outcome = "exception"
        THEN /\ jobs' = [jobs EXCEPT ![j].error =
                           IF res.status = "raised" THEN ExceptionText(res.exception)
                           ELSE ExceptionText("OSError")]
             /\ threads' = [threads EXCEPT ![j].log = logged, ![j].pc = "error_status"]
             /\ UNCHANGED disk
        ELSE IF outcome = "error"
        THEN /\ threads' = [threads EXCEPT ![j].log = logged, ![j].pc = "pause"]
             /\ UNCHANGED <<jobs, disk>>
        ELSE /\ disk' = Append(disk, FileWrite(filename, j, res.headers, res.data))
             /\ threads' = [threads EXCEPT
                   ![j].files = Append(@, [name |-> age_label, file |-> filename,
                                           rows |-> Len(res.data)]),
                   ![j].log = logged,
                   ![j].pc = "pause"]
             /\ UNCHANGED jobs
  /\ UNCHANGED <<pc, query, xml_request, template, patch, response, result, script>>

\* Line 666: time.sleep(2) returns.
AgePause(j) ==
  /\ threads[j].kind = "age" /\ threads[j].pc = "pause"
  /\ threads' = [threads EXCEPT ![j].i = @ + 1,
                                ![j].log = Append(@, [event |-> "sleep", i |-> threads[j].i]),
                                ![j].pc = "loop"]
  /\ UNCHANGED <<pc, query, xml_request, template, patch, response, result, jobs, disk, script>>

\* Line 668: jobs[job_id]["files"] = files.
AgeFinish(j) ==
  /\ threads[j].kind = "age" /\ threads[j].pc = "loop"
  /\ threads[j].i = Len(AgeLoop)
  /\ jobs' = [jobs EXCEPT ![j].files = threads[j].files]
  /\ threads' = [threads EXCEPT ![j].pc = "complete"]
  /\ UNCHANGED <<pc, query, xml_request, template, patch, response, result, disk, script>>

\* Line 669: jobs[job_id]["status"] = "complete".
AgeComplete(j) ==
  /\ threads[j].kind = "age" /\ threads[j].pc = "complete"
  /\ jobs' = [jobs EXCEPT ![j].status = "complete"]
  /\ threads' = [threads EXCEPT ![j].pc = "progress"]
  /\ UNCHANGED <<pc, query, xml_request, template, patch, response, result, disk, script>>

\* Line 670: jobs[job_id]["progress"] = 100.
AgeDone(j) ==
  /\ threads[j].kind = "age" /\ threads[j].pc = "progress"
  /\ jobs' = [jobs EXCEPT ![j].progress = 100]
  /\ threads' = [threads EXCEPT ![j].pc = "done"]
  /\ UNCHANGED <<pc, query, xml_request, template, patch, response, result, disk, script>>

AgeStep(j) ==
  \/ AgeStart(j)
  \/ AgeErrorStatus(j)
  \/ AgeProgress(j)
  \/ AgeSend(j)
  \/ \E exchange \in BatchExchanges, saved \in BOOLEAN : AgeReceive(j, exchange, saved)
  \/ AgePause(j)
  \/ AgeFinish(j)
  \/ AgeComplete(j)
  \/ AgeDone(j)

\* Two requests may be served at once.
NextAge ==
  \/ \E j \in JobIds : RunByAge(j)
  \/ \E j \in JobIds : AgeStep(j)

SpecAge == InitJobs /\ [][NextAge]_vars

(***************************************************************************)
(* C27. In execute_age_queries the failure of one age group's query (an    *)
(* exception of the transport, or an error response) is recorded for that  *)
(* age group and does not abort the others: a job whose template exists    *)
(* ends with every age group attempted, and with a failure record for each *)
(* age group whose query failed.                                           *)
(***************************************************************************)
C27_Isolated ==
  \A j \in JobIds :
    (threads[j].kind = "age" /\ threads[j].pc = "done" /\ template # <<>>) =>
       /\ Len(Sends(j)) = Len(AgeLoop)
       /\ \A k \in 1..Len(threads[j].log) :
            LET e == threads[j].log[k] IN
            (e.event = "return" /\ e.outcome # "success") =>
               \E f \in 1..Len(jobs[j].files) :
                  /\ jobs[j].files[f].name = AgeLoop[e.i + 1][2]
                  /\ jobs[j].files[f].file = None

(***************************************************************************)
(* C28. Publication order of a job record: it starts with status running;  *)
(* the status is written once more at most, to complete or error, and      *)
(* never changes afterwards; whenever the status reads complete the final  *)
(* payload (the result, or the files) is in the record, and whenever it    *)
(* reads error the error field is set.                                     *)
(***************************************************************************)
\* The payload the worker of job j has produced is in the record.
C28_PayloadStored(j) ==
  LET t == threads[j] IN
  IF t.kind = "query" THEN jobs[j].result # <<>>
  ELSE IF t.data.combine_files /\ t.combined_data # <<>>
  THEN /\ jobs[j].result # <<>>
       /\ jobs[j].result[1].rows = Len(t.combined_data)
       /\ jobs[j].result[1].headers = t.combined_headers[1]
  ELSE jobs[j].files = t.files

C28_StatusStep(j) ==
  /\ jobs[j].status = "absent" => jobs'[j].status \in {"absent", "running"}
  /\ jobs[j].status = "running" => jobs'[j].status \in {"running", "complete", "error"}
  /\ jobs[j].status \in {"complete", "error"} =>
       /\ jobs'[j].status = jobs[j].status
       /\ jobs'[j].result = jobs[j].result
       /\ jobs'[j].error = jobs[j].error
       /\ threads[j].kind = "batch" => jobs'[j].files = jobs[j].files

C28_PublicationOrder ==
  /\ [][\A j \in JobIds : C28_StatusStep(j)]_vars
  /\ [](\A j \in JobIds :
          /\ jobs[j].status = "complete" => C28_PayloadStored(j)
          /\ jobs[j].status = "error" => jobs[j].error # None)

\* One job has published a combined table, the other an error.
C28_Witness ==
  /\ jobs["j1"].status = "complete"
  /\ threads["j1"].kind = "batch"
  /\ jobs["j1"].result # <<>>
  /\ jobs["j1"].progress < 100
  /\ jobs["j2"].status = "error"
  /\ threads["j2"].kind = "query"
  /\ jobs["j2"].error = "Invalid request"

====
